---- MODULE Spec2Model ----
(***************************************************************************)
(* Model of the Rootstock MCP server: the in-memory WalletManager          *)
(* keystore, the RootstockClient RPC wrapper and the two tool dispatchers  *)
(* (index.ts over stdio, smithery-server.ts for Smithery).                 *)
(***************************************************************************)
EXTENDS Integers, Sequences, FiniteSets, Bags, TLC

\* Valid private keys are numbered 1..NumKeys; key k derives address id k.
NumKeys == 2
\* decimals: number = 18 (rootstock-client.ts), params.decimals || 18 (handlers).
DefaultDecimals == 18
\* Longest ROOTSTOCK_PRIVATE_KEYS / ROOTSTOCK_ADDRESSES list the environment holds.
MaxEnvKeys == 1

VARIABLES
    host,           \* the program that holds the objects: the "stdio" server
                    \* (index.ts), the "smithery" server, or a caller of one
                    \* class alone: "wallet-manager" (as wallet-manager.test.ts)
                    \* or "rootstock-client"
    wallets,        \* WalletManager.wallets: the Map in insertion order
    currentWallet,  \* WalletManager.currentWallet: a key of the map, or null
    config,         \* RootstockClient.config: the chainId and networkName it holds
    last,           \* the last call made and what it returned
    inflight        \* the bag of transaction handlers suspended at their
                    \* await of the client, each holding the wallet it looked up

vars == <<host, wallets, config, currentWallet, last, inflight>>

----------------------------------------------------------------------------
(* Values: strings, addresses, keys                                         *)

\* JavaScript null / undefined for an address-valued slot.
null == [id |-> 0, cs |-> "null"]

\* An address string: the 20 bytes it names (id) and the letter case it is
\* written in.  ethers reports wallet.address in checksum (mixed) case.
LetterCases == {"lower", "checksum", "upper"}
KeyIds == 1..NumKeys
\* One more address no private key of the model derives.
ForeignId == NumKeys + 1
AddrIds == 1..ForeignId
Addresses == [id : AddrIds, cs : LetterCases]

toLowerCase(a) == [id |-> a.id, cs |-> "lower"]

\* A private-key or mnemonic argument: undefined, the empty string, a blank
\* string, a string that is no key / no phrase, or a valid one.
undefined == [t |-> "undefined", n |-> 0]
emptyString == [t |-> "empty", n |-> 0]
blankString == [t |-> "blank", n |-> 0]
invalidString == [t |-> "invalid", n |-> 0]
PrivateKey(k) == [t |-> "key", n |-> k]
Mnemonic(k) == [t |-> "phrase", n |-> k]
\* A phrase bip39 accepts and ethers rejects (the two libraries validate apart).
oddPhrase == [t |-> "oddphrase", n |-> 0]

\* JavaScript truthiness of an optional string.
Truthy(s) == s.t \notin {"undefined", "empty"}
\* String.prototype.trim(): a blank string trims to the empty string.
trim(s) == IF s.t = "blank" THEN emptyString ELSE s

\* new ethers.Wallet(privateKey): throws unless the string is a valid key.
WalletCtorOk(s) == s.t = "key"
\* bip39.validateMnemonic(mnemonic)
validateMnemonic(s) == s.t \in {"phrase", "oddphrase"}
\* ethers.Wallet.fromPhrase(mnemonic): throws unless ethers accepts it.
FromPhraseOk(s) == s.t = "phrase"

\* A wallet object (ethers.Wallet or HDNodeWallet): its signing key.
WalletObj(k) == [pk |-> k]
\* wallet.address: derived from the signing key, in checksum case.
AddressOf(w) == [id |-> w.pk, cs |-> "checksum"]

----------------------------------------------------------------------------
(* The Map<string, Wallet>: insertion-ordered, Map.set keeps an existing   *)
(* key's position.                                                         *)

MapKeys(m) == [i \in 1..Len(m) |-> m[i].key]
MapHas(m, k) == \E i \in 1..Len(m) : m[i].key = k
MapIndex(m, k) == CHOOSE i \in 1..Len(m) : m[i].key = k
MapGet(m, k) == m[MapIndex(m, k)].wallet
\* A faulty set that adds an entry even when the key is present.
MapSetAppending(m, k, w) == Append(m, [key |-> k, wallet |-> w])
MapSet(m, k, w) ==
    IF MapHas(m, k)
    THEN [m EXCEPT ![MapIndex(m, k)] = [key |-> k, wallet |-> w]]
    ELSE Append(m, [key |-> k, wallet |-> w])
MapDelete(m, k) ==
    IF MapHas(m, k)
    THEN SubSeq(m, 1, MapIndex(m, k) - 1) \o SubSeq(m, MapIndex(m, k) + 1, Len(m))
    ELSE m

----------------------------------------------------------------------------
(* Errors: a message is the sequence of its pieces, so that "contains" and *)
(* "starts with" are questions about the pieces.                           *)

Contains(msg, piece) == \E i \in 1..Len(msg) : msg[i] = piece
StartsWith(msg, piece) == Len(msg) > 0 /\ msg[1] = piece
\* Calling a method on undefined: the message of the TypeError JavaScript raises.
TypeErrorMsg == <<"Cannot read properties of undefined">>
\* `${error}` of an Error object: its name, ": ", and its message.
ErrorToString(msg) ==
    IF msg = TypeErrorMsg THEN <<"TypeError: ">> \o msg ELSE <<"Error: ">> \o msg

\* The state of a WalletManager and the outcome of one method call on it.
WM(ws, cur) == [wallets |-> ws, current |-> cur]
\* What a call that returns nothing (or throws) gives back.
void == [void |-> TRUE]
Returned(wm, value) == [ok |-> TRUE, err |-> <<>>, ret |-> value, wm |-> wm]
Thrown(wm, msg) == [ok |-> FALSE, err |-> msg, ret |-> void, wm |-> wm]

\* `${error}` of an error the wrapped library (ethers, bip39) raised in `call`.
LibraryError(call) == <<"library error in ", call>>

----------------------------------------------------------------------------
(* WalletManager (wallet-manager.ts)                                        *)

\* An entry of ROOTSTOCK_ADDRESSES that is empty or blank.
emptyAddr == [id |-> 0, cs |-> "empty"]

\* A faulty iteration that selects only while nothing is selected and never
\* looks at the current address of the environment.
LoadOneFirstOnly(wm, privateKey, addresses, index, currentAddress) ==
    IF ~Truthy(trim(privateKey)) THEN wm
    ELSE IF ~WalletCtorOk(trim(privateKey)) THEN wm
    ELSE LET wallet == WalletObj(trim(privateKey).n)
             given == IF index <= Len(addresses) THEN addresses[index] ELSE emptyAddr
             address == IF given # emptyAddr THEN given ELSE AddressOf(wallet)
             key == toLowerCase(address)
         IN  WM(MapSet(wm.wallets, key, wallet),
                IF wm.current = null THEN key ELSE wm.current)

\* One iteration of the forEach in loadWalletsFromEnv.
LoadOne(wm, privateKey, addresses, index, currentAddress) ==
    IF ~Truthy(trim(privateKey)) THEN wm
    ELSE IF ~WalletCtorOk(trim(privateKey)) THEN wm   \* caught, console.warn
    ELSE LET wallet == WalletObj(trim(privateKey).n)
             given == IF index <= Len(addresses) THEN addresses[index] ELSE emptyAddr
             address == IF given # emptyAddr THEN given ELSE AddressOf(wallet)
             key == toLowerCase(address)
         IN  WM(MapSet(wm.wallets, key, wallet),
                IF wm.current = null
                   \/ (currentAddress # null /\ key = toLowerCase(currentAddress))
                THEN key ELSE wm.current)

\* A faulty loop that gives up at the first entry it cannot load.
RECURSIVE LoadFromUntilFailure(_, _, _, _, _)
LoadFromUntilFailure(wm, privateKeys, addresses, index, currentAddress) ==
    IF index > Len(privateKeys) THEN wm
    ELSE IF ~WalletCtorOk(trim(privateKeys[index])) THEN wm
    ELSE LoadFromUntilFailure(
             LoadOne(wm, privateKeys[index], addresses, index, currentAddress),
             privateKeys, addresses, index + 1, currentAddress)

RECURSIVE LoadFrom(_, _, _, _, _)
LoadFrom(wm, privateKeys, addresses, index, currentAddress) ==
    IF index > Len(privateKeys) THEN wm
    ELSE LoadFrom(LoadOne(wm, privateKeys[index], addresses, index, currentAddress),
                  privateKeys, addresses, index + 1, currentAddress)

\* constructor() -> loadWalletsFromEnv(): the manager built from the
\* environment's key list, address list and current address.
loadWalletsFromEnv(privateKeys, addresses, currentAddress) ==
    LoadFrom(WM(<<>>, null), privateKeys, addresses, 1, currentAddress)

\* A faulty store that always selects the wallet it stores.
StoreWalletSelecting(wm, wallet) ==
    WM(MapSet(wm.wallets, toLowerCase(AddressOf(wallet)), wallet),
       toLowerCase(AddressOf(wallet)))

\* Store the wallet; it becomes current only if none is.
StoreWallet(wm, wallet) ==
    WM(MapSet(wm.wallets, toLowerCase(AddressOf(wallet)), wallet),
       IF wm.current = null THEN toLowerCase(AddressOf(wallet)) ELSE wm.current)

\* createWallet(): k is the key of the mnemonic bip39 generated at random.
createWallet(wm, k) ==
    LET wallet == WalletObj(k)
    IN  Returned(StoreWallet(wm, wallet),
                 [address |-> AddressOf(wallet), privateKey |-> PrivateKey(k),
                  mnemonic |-> Mnemonic(k)])

\* A faulty import that leaves the mnemonic to ethers alone, without the
\* bip39 validation.
importWalletUnvalidated(wm, privateKey, mnemonic) ==
    LET fail(msg) == Thrown(wm, <<"Failed to import wallet: ">> \o msg)
        done(wallet) ==
            Returned(StoreWallet(wm, wallet),
                     [address |-> AddressOf(wallet),
                      privateKey |-> PrivateKey(wallet.pk),
                      mnemonic |-> mnemonic])
    IN  IF Truthy(privateKey)
        THEN IF WalletCtorOk(privateKey)
             THEN done(WalletObj(privateKey.n))
             ELSE fail(LibraryError("new ethers.Wallet"))
        ELSE IF Truthy(mnemonic)
        THEN IF FromPhraseOk(mnemonic)
             THEN done(WalletObj(mnemonic.n))
             ELSE fail(LibraryError("ethers.Wallet.fromPhrase"))
        ELSE fail(ErrorToString(<<"Either private key or mnemonic must be provided">>))

importWallet(wm, privateKey, mnemonic) ==
    LET fail(msg) == Thrown(wm, <<"Failed to import wallet: ">> \o msg)
        done(wallet) ==
            Returned(StoreWallet(wm, wallet),
                     [address |-> AddressOf(wallet),
                      privateKey |-> PrivateKey(wallet.pk),
                      mnemonic |-> mnemonic])
    IN  IF Truthy(privateKey)
        THEN IF WalletCtorOk(privateKey)
             THEN done(WalletObj(privateKey.n))
             ELSE fail(LibraryError("new ethers.Wallet"))
        ELSE IF Truthy(mnemonic)
        THEN IF ~validateMnemonic(mnemonic)
             THEN fail(ErrorToString(<<"Invalid mnemonic phrase">>))
             ELSE IF FromPhraseOk(mnemonic)
                  THEN done(WalletObj(mnemonic.n))
                  ELSE fail(LibraryError("ethers.Wallet.fromPhrase"))
        ELSE fail(ErrorToString(<<"Either private key or mnemonic must be provided">>))

NotFound(address) == <<"Wallet not found for address: ", ToString(address)>>

getWallet(wm, address) ==
    IF address = null THEN Thrown(wm, TypeErrorMsg)
    ELSE IF ~MapHas(wm.wallets, toLowerCase(address))
    THEN Thrown(wm, NotFound(address))
    ELSE Returned(wm, MapGet(wm.wallets, toLowerCase(address)))

getCurrentWallet(wm) ==
    IF wm.current = null THEN Thrown(wm, <<"No current wallet set">>)
    ELSE getWallet(wm, wm.current)

\* A faulty setCurrentWallet that selects without looking the address up.
setCurrentWalletUnchecked(wm, address) ==
    IF address = null THEN Thrown(wm, TypeErrorMsg)
    ELSE Returned(WM(wm.wallets, toLowerCase(address)), void)

setCurrentWallet(wm, address) ==
    IF address = null THEN Thrown(wm, TypeErrorMsg)
    ELSE IF ~MapHas(wm.wallets, toLowerCase(address))
    THEN Thrown(wm, NotFound(address))
    ELSE Returned(WM(wm.wallets, toLowerCase(address)), void)

\* A faulty listWallets that leaves the current wallet out.
listWalletsWithoutCurrent(wm) ==
    LET rest == SelectSeq(wm.wallets, LAMBDA e : e.key # wm.current)
    IN  Returned(wm, [list |-> [i \in 1..Len(rest) |->
                                   [address |-> AddressOf(rest[i].wallet)]]])

\* listWallets(): address (and public key) of every entry, no private key.
listWallets(wm) ==
    Returned(wm, [list |-> [i \in 1..Len(wm.wallets) |->
                               [address |-> AddressOf(wm.wallets[i].wallet)]]])

\* wallet.privateKey is '0x' and 64 hex digits.
PrivateKeyLength == 66
length(s) == IF s.t = "key" THEN PrivateKeyLength ELSE 0

\* A faulty mask that returns the key as it is.
maskPrivateKeyShowingAll(privateKey) == privateKey

\* maskPrivateKey: a key shorter than 10 characters is returned whole, any
\* other as substring(0, 6) + '...' + substring(length - 4).
maskPrivateKey(privateKey) ==
    IF length(privateKey) < 10 THEN privateKey
    ELSE [t |-> "masked", n |-> privateKey.n, first |-> 6, last |-> 4]

getWalletInfo(wm, address) ==
    LET got == getWallet(wm, address)
    IN  IF ~got.ok THEN got
        ELSE Returned(wm, [address |-> AddressOf(got.ret),
                           privateKey |-> maskPrivateKey(PrivateKey(got.ret.pk))])

getCurrentAddress(wm) ==
    IF wm.current = null THEN Thrown(wm, <<"No current wallet set">>)
    ELSE IF ~MapHas(wm.wallets, wm.current) THEN Thrown(wm, TypeErrorMsg)
    ELSE Returned(wm, AddressOf(MapGet(wm.wallets, wm.current)))

\* A faulty hasWallet that looks the address up as written.
hasWalletExactCase(wm, address) ==
    IF address = null THEN Thrown(wm, TypeErrorMsg)
    ELSE Returned(wm, [has |-> MapHas(wm.wallets, address)])

hasWallet(wm, address) ==
    IF address = null THEN Thrown(wm, TypeErrorMsg)
    ELSE Returned(wm, [has |-> MapHas(wm.wallets, toLowerCase(address))])

\* A faulty removeWallet that keeps the selection when the store runs empty.
removeWalletKeepingSelection(wm, address) ==
    IF address = null THEN Thrown(wm, TypeErrorMsg)
    ELSE LET addressLower == toLowerCase(address)
             remaining == MapDelete(wm.wallets, addressLower)
         IN  IF ~MapHas(wm.wallets, addressLower)
             THEN Thrown(wm, NotFound(address))
             ELSE Returned(WM(remaining,
                              IF wm.current = addressLower /\ Len(remaining) > 0
                              THEN remaining[1].key
                              ELSE wm.current),
                           void)

\* A faulty removeWallet that unsets the selection whenever the current
\* wallet is removed, other wallets remaining or not.
removeWalletUnselecting(wm, address) ==
    IF address = null THEN Thrown(wm, TypeErrorMsg)
    ELSE LET addressLower == toLowerCase(address)
             remaining == MapDelete(wm.wallets, addressLower)
         IN  IF ~MapHas(wm.wallets, addressLower)
             THEN Thrown(wm, NotFound(address))
             ELSE Returned(WM(remaining,
                              IF wm.current = addressLower THEN null ELSE wm.current),
                           void)

\* A faulty removeWallet that selects the first remaining wallet whichever
\* wallet was removed.
removeWalletAlwaysReselecting(wm, address) ==
    IF address = null THEN Thrown(wm, TypeErrorMsg)
    ELSE LET addressLower == toLowerCase(address)
             remaining == MapDelete(wm.wallets, addressLower)
         IN  IF ~MapHas(wm.wallets, addressLower)
             THEN Thrown(wm, NotFound(address))
             ELSE Returned(WM(remaining,
                              IF Len(remaining) > 0 THEN remaining[1].key ELSE null),
                           void)

removeWallet(wm, address) ==
    IF address = null THEN Thrown(wm, TypeErrorMsg)
    ELSE LET addressLower == toLowerCase(address)
             remaining == MapDelete(wm.wallets, addressLower)
         IN  IF ~MapHas(wm.wallets, addressLower)
             THEN Thrown(wm, NotFound(address))
             ELSE Returned(WM(remaining,
                              IF wm.current = addressLower
                              THEN IF Len(remaining) > 0 THEN remaining[1].key ELSE null
                              ELSE wm.current),
                           void)

getWalletCount(wm) == Returned(wm, [count |-> Len(wm.wallets)])

----------------------------------------------------------------------------
(* RootstockClient (rootstock-client.ts)                                    *)
(* Every operation is a try block of awaited library calls.  `node` is how *)
(* the library and the remote node answer during one invocation: the calls *)
(* that fail if made, the balance read, the receipt the wait yields and    *)
(* whether the transaction or block asked for exists.                      *)

NodeReply(fails, balance, receipt, found) ==
    [fails |-> fails, balance |-> balance, receipt |-> receipt, found |-> found]
Receipts == {"none", "status1", "status0"}
\* What the node answered during a call, apart from the failures the log shows.
Answer(node) == [receipt |-> node.receipt, found |-> node.found, balance |-> node.balance]
NoNode == NodeReply({}, 0, "none", FALSE)

\* The run of a try block so far: the library calls made, in order, each with
\* whether it failed, and the `${error}` of the exception on its way to the
\* catch clause, if any.
Begin == [log |-> <<>>, thrown |-> FALSE, err |-> <<>>]

Made(calls, node) ==
    [i \in 1..Len(calls) |-> [call |-> calls[i], failed |-> calls[i] \in node.fails]]

FirstFailing(calls, node) ==
    calls[CHOOSE i \in 1..Len(calls) :
            /\ calls[i] \in node.fails
            /\ \A j \in 1..(i - 1) : calls[j] \notin node.fails]

\* await of one request, or of Promise.all over several: all are issued; if
\* any fails the await throws (here: the error of the first one listed).
Await(x, calls, node) ==
    IF x.thrown THEN x
    ELSE IF \E i \in 1..Len(calls) : calls[i] \in node.fails
    THEN [log |-> x.log \o Made(calls, node), thrown |-> TRUE,
          err |-> LibraryError(FirstFailing(calls, node))]
    ELSE [x EXCEPT !.log = x.log \o Made(calls, node)]

\* The library calls that compute locally and send the node nothing.
LocalCalls == {"ethers.parseEther", "ethers.parseUnits", "BigInt"}
Local(x, call, node) ==
    IF x.thrown THEN x
    ELSE IF call \in node.fails
    THEN [log |-> x.log \o Made(<<call>>, node), thrown |-> TRUE,
          err |-> LibraryError(call)]
    ELSE [x EXCEPT !.log = x.log \o Made(<<call>>, node)]

\* if (cond) throw new Error(msg)
ThrowIf(x, cond, msg) ==
    IF x.thrown \/ ~cond THEN x
    ELSE [x EXCEPT !.thrown = TRUE, !.err = ErrorToString(msg)]

\* An inner try { await ... } catch { } whose catch clause swallows the error.
AwaitSwallowed(x, calls, node) ==
    IF x.thrown THEN x ELSE [x EXCEPT !.log = x.log \o Made(calls, node)]

\* catch (error) { throw new Error(`<prefix>${error}`) }, else the value.
Finish(x, prefix, value) ==
    IF x.thrown
    THEN [ok |-> FALSE, err |-> <<prefix>> \o x.err, ret |-> void, log |-> x.log]
    ELSE [ok |-> TRUE, err |-> <<>>, ret |-> value, log |-> x.log]

\* receipt?.status === 1 ? 'confirmed' : 'failed'
\* A faulty status that reports a transaction without receipt as pending.
SentStatusPending(node) ==
    IF node.receipt = "status1" THEN "confirmed"
    ELSE IF node.receipt = "none" THEN "pending" ELSE "failed"

SentStatus(node) == IF node.receipt = "status1" THEN "confirmed" ELSE "failed"

\* A faulty getBalance whose catch clause returns a zero balance.
getBalanceSwallowing(node) ==
    [ok |-> TRUE, err |-> <<>>, ret |-> [balance |-> 0],
     log |-> Await(Begin, <<"provider.getBalance">>, node).log]

getBalance(node) ==
    Finish(Await(Begin, <<"provider.getBalance">>, node),
           "Failed to get balance: ", [balance |-> node.balance])

getTokenBalance(node) ==
    Finish(Await(Begin, <<"token.balanceOf", "token.decimals", "token.symbol",
                          "token.name">>, node),
           "Failed to get token balance: ", [balance |-> node.balance])

\* A faulty sendTransaction that submits the transaction again when the
\* first submission fails.
sendTransactionRetrying(wallet, node) ==
    LET parsed == Local(Begin, "ethers.parseEther", node)
        first == Await(parsed, <<"wallet.sendTransaction">>, node)
        sent == IF first.thrown /\ ~parsed.thrown
                THEN Await([parsed EXCEPT !.log = first.log],
                           <<"wallet.sendTransaction">>, node)
                ELSE first
        waited == Await(sent, <<"transaction.wait">>, node)
    IN  Finish(waited, "Failed to send transaction: ",
               [from |-> AddressOf(wallet), status |-> SentStatus(node)])

sendTransaction(wallet, node) ==
    LET parsed == Local(Begin, "ethers.parseEther", node)
        sent == Await(parsed, <<"wallet.sendTransaction">>, node)
        waited == Await(sent, <<"transaction.wait">>, node)
    IN  Finish(waited, "Failed to send transaction: ",
               [from |-> AddressOf(wallet), status |-> SentStatus(node)])

sendTokenTransaction(wallet, node) ==
    LET decimals == Await(Begin, <<"token.decimals">>, node)
        parsed == Local(decimals, "ethers.parseUnits", node)
        sent == Await(parsed, <<"token.transfer">>, node)
        waited == Await(sent, <<"transaction.wait">>, node)
    IN  Finish(waited, "Failed to send token transaction: ",
               [from |-> AddressOf(wallet), status |-> SentStatus(node)])

\* A faulty getTransaction that reports every found transaction as confirmed.
getTransactionAlwaysConfirmed(node) ==
    LET both == Await(Begin, <<"provider.getTransaction",
                               "provider.getTransactionReceipt">>, node)
        checked == ThrowIf(both, ~node.found, <<"Transaction not found">>)
    IN  Finish(checked, "Failed to get transaction: ", [status |-> "confirmed"])

getTransaction(node) ==
    LET both == Await(Begin, <<"provider.getTransaction",
                               "provider.getTransactionReceipt">>, node)
        checked == ThrowIf(both, ~node.found, <<"Transaction not found">>)
    IN  Finish(checked, "Failed to get transaction: ",
               [status |-> IF node.receipt = "none" THEN "pending"
                           ELSE IF node.receipt = "status1" THEN "confirmed"
                           ELSE "failed"])

\* A faulty selection that tests the block number for truthiness, so that
\* block 0 is taken for a missing number.
BlockSelectorTruthyNumber(blockNumber, blockHash) ==
    IF Truthy(blockHash) THEN "provider.getBlock(blockHash)"
    ELSE IF blockNumber # undefined /\ blockNumber.n # 0
    THEN "provider.getBlock(blockNumber)"
    ELSE "provider.getBlock(latest)"

\* The block the arguments select: blockHash if truthy, else blockNumber
\* unless undefined, else 'latest'.
BlockSelector(blockNumber, blockHash) ==
    IF Truthy(blockHash) THEN "provider.getBlock(blockHash)"
    ELSE IF blockNumber # undefined THEN "provider.getBlock(blockNumber)"
    ELSE "provider.getBlock(latest)"

getBlock(blockNumber, blockHash, node) ==
    LET got == Await(Begin, <<BlockSelector(blockNumber, blockHash)>>, node)
        checked == ThrowIf(got, ~node.found, <<"Block not found">>)
    IN  Finish(checked, "Failed to get block: ",
               [selected |-> BlockSelector(blockNumber, blockHash)])

\* The RootstockConfig each program hands to new RootstockClient(config).
DefaultChainId == 31
DefaultNetworkName == "Rootstock Testnet"
RootstockConfig(chainId, networkName) == [chainId |-> chainId, networkName |-> networkName]

\* x || dflt for a number and for a string: 0 and '' are falsy.
NumberOr(x, dflt) == IF x = 0 THEN dflt ELSE x
StringOr(x, dflt) == IF x = "" THEN dflt ELSE x

\* What the node reports of itself when the reads succeed.
NodeChainId == DefaultChainId
NodeBlockNumber == 1

\* A faulty getNetworkInfo whose catch clause rethrows like the other operations.
getNetworkInfoThrowing(node) ==
    Finish(Await(Begin, <<"provider.getNetwork", "provider.getBlockNumber",
                          "provider.getFeeData">>, node),
           "Failed to get network info: ",
           [chainId |-> NodeChainId, networkName |-> "network.name",
            blockNumber |-> NodeBlockNumber, gasPrice |-> "feeData.gasPrice",
            isConnected |-> TRUE])

\* The catch clause returns a disconnected record instead of throwing.
getNetworkInfo(node) ==
    LET all == Await(Begin, <<"provider.getNetwork", "provider.getBlockNumber",
                              "provider.getFeeData">>, node)
    IN  [ok |-> TRUE, err |-> <<>>, log |-> all.log,
         ret |-> IF ~all.thrown
                 THEN [chainId |-> NodeChainId,
                       networkName |-> StringOr("network.name",
                                                StringOr(config.networkName, "Unknown")),
                       blockNumber |-> NodeBlockNumber,
                       gasPrice |-> StringOr("feeData.gasPrice", "0"),
                       isConnected |-> TRUE]
                 ELSE [chainId |-> NumberOr(config.chainId, 0),
                       networkName |-> StringOr(config.networkName, "Unknown"),
                       blockNumber |-> 0,
                       gasPrice |-> "0",
                       isConnected |-> FALSE]]

estimateGas(node) ==
    LET parsed == Local(Begin, "ethers.parseEther", node)
        both == Await(parsed, <<"provider.estimateGas", "provider.getFeeData">>, node)
    IN  Finish(both, "Failed to estimate gas: ", [gasLimit |-> 1])

callContract(node) ==
    Finish(Await(Begin, <<"contract.call">>, node),
           "Failed to call contract: ", [result |-> 1])

sendContractTransaction(wallet, node) ==
    LET parsed == Local(Begin, "ethers.parseEther", node)
        sent == Await(parsed, <<"contract.send">>, node)
        waited == Await(sent, <<"transaction.wait">>, node)
    IN  Finish(waited, "Failed to send contract transaction: ",
               [from |-> AddressOf(wallet), status |-> SentStatus(node)])

\* A number argument, and a default parameter value (used when undefined).
NumberArg(n) == [t |-> "number", n |-> n]
DefaultParam(arg, dflt) == IF arg = undefined THEN dflt ELSE arg

\* A faulty deployERC20Token that reads the balance and deploys whatever it is.
deployERC20TokenUnfunded(wallet, decimalsArg, node) ==
    LET decimals == DefaultParam(decimalsArg, NumberArg(DefaultDecimals))
        balance == Await(Begin, <<"provider.getBalance">>, node)
        parsed == Local(balance, "BigInt", node)
        deployed == Await(parsed, <<"factory.deploy">>, node)
        waited == Await(deployed, <<"transaction.wait">>, node)
        address == Await(waited, <<"contract.getAddress">>, node)
    IN  Finish(address, "Failed to deploy ERC20 token: ",
               [deployer |-> AddressOf(wallet), decimals |-> decimals])

deployERC20Token(wallet, decimalsArg, node) ==
    LET decimals == DefaultParam(decimalsArg, NumberArg(DefaultDecimals))
        balance == Await(Begin, <<"provider.getBalance">>, node)
        funded == ThrowIf(balance, node.balance = 0,
                          <<"Wallet has no funds for deployment. Please fund the wallet: ",
                            ToString(AddressOf(wallet))>>)
        parsed == Local(funded, "BigInt", node)
        deployed == Await(parsed, <<"factory.deploy">>, node)
        waited == Await(deployed, <<"transaction.wait">>, node)
        address == Await(waited, <<"contract.getAddress">>, node)
    IN  Finish(address, "Failed to deploy ERC20 token: ",
               [deployer |-> AddressOf(wallet), decimals |-> decimals])

getTokenInfo(node) ==
    LET all == Await(Begin, <<"token.name", "token.symbol", "token.decimals",
                              "token.totalSupply">>, node)
        owner == AwaitSwallowed(all, <<"token.owner">>, node)
    IN  Finish(owner, "Failed to get token info: ",
               [hasOwner |-> "token.owner" \notin node.fails])

mintTokens(wallet, node) ==
    LET decimals == Await(Begin, <<"token.decimals">>, node)
        parsed == Local(decimals, "ethers.parseUnits", node)
        sent == Await(parsed, <<"token.mint">>, node)
        waited == Await(sent, <<"transaction.wait">>, node)
    IN  Finish(waited, "Failed to mint tokens: ",
               [from |-> AddressOf(wallet), status |-> SentStatus(node)])

deployERC721Token(wallet, node) ==
    LET balance == Await(Begin, <<"provider.getBalance">>, node)
        funded == ThrowIf(balance, node.balance = 0,
                          <<"Wallet has no funds for deployment. Please fund the wallet: ",
                            ToString(AddressOf(wallet))>>)
        deployed == Await(funded, <<"factory.deploy">>, node)
        waited == Await(deployed, <<"transaction.wait">>, node)
        address == Await(waited, <<"contract.getAddress">>, node)
    IN  Finish(address, "Failed to deploy ERC721 token: ",
               [deployer |-> AddressOf(wallet)])

mintNFT(wallet, node) ==
    LET parsed == Local(Begin, "BigInt", node)
        sent == Await(parsed, <<"nft.mint">>, node)
        waited == Await(sent, <<"transaction.wait">>, node)
    IN  Finish(waited, "Failed to mint NFT: ", [from |-> AddressOf(wallet)])

\* tokenId: an optional string; the token reads are made only if it is truthy
\* and their failure is swallowed.
getNFTInfo(tokenId, node) ==
    LET all == Await(Begin, <<"nft.name", "nft.symbol", "nft.totalSupply">>, node)
        token == IF Truthy(tokenId)
                 THEN AwaitSwallowed(all, <<"nft.tokenURI", "nft.ownerOf">>, node)
                 ELSE all
    IN  Finish(token, "Failed to get NFT info: ",
               [hasToken |-> Truthy(tokenId) /\ "nft.tokenURI" \notin node.fails
                                /\ "nft.ownerOf" \notin node.fails])

----------------------------------------------------------------------------
(* Tool handlers of the stdio server (index.ts)                             *)
(* A handler either returns the text of its content or throws; `wm` is the *)
(* WalletManager it leaves, `log` the requests it issued and `signer` the  *)
(* signing key of the wallet it handed to the client (0: none).            *)

NoArgs == [address |-> null, privateKey |-> undefined, mnemonic |-> undefined,
           tokenAddress |-> undefined, blockNumber |-> undefined,
           blockHash |-> undefined, tokenId |-> undefined, decimals |-> undefined]

Content(text, wm, log, signer) ==
    [thrown |-> FALSE, text |-> text, wm |-> wm, log |-> log, signer |-> signer]
Raise(msg, wm, log, signer) ==
    [thrown |-> TRUE, text |-> msg, wm |-> wm, log |-> log, signer |-> signer]

\* A faulty handler that drops the selection when the client operation fails.
RethrowDroppingSelection(prefix, r, text, wm, signer) ==
    IF r.ok THEN Content(text, wm, r.log, signer)
    ELSE Raise(<<prefix>> \o ErrorToString(r.err), WM(wm.wallets, null), r.log, signer)

\* try { result = await client...; return text } catch (error) {
\*   throw new Error(`<prefix>${error}`) } around one client operation.
Rethrow(prefix, r, text, wm, signer) ==
    IF r.ok THEN Content(text, wm, r.log, signer)
    ELSE Raise(<<prefix>> \o ErrorToString(r.err), wm, r.log, signer)

\* params.decimals || 18 : zero is falsy.
OrDefault(arg, dflt) == IF arg = undefined \/ arg.n = 0 THEN dflt ELSE arg

RECURSIVE ListingLines(_, _, _)
ListingLines(list, i, currentAddress) ==
    IF i > Len(list) THEN <<>>
    ELSE (IF toLowerCase(list[i].address) = toLowerCase(currentAddress)
          THEN <<ToString(list[i].address), " (current)">>
          ELSE <<ToString(list[i].address)>>)
         \o ListingLines(list, i + 1, currentAddress)
Listing(list, currentAddress) ==
    <<"Available Wallets (", ToString(Len(list)), "):">>
        \o ListingLines(list, 1, currentAddress)

handleCreateWallet(wm, k) ==
    LET r == createWallet(wm, k)
    IN  Content(<<"Wallet created successfully!", ToString(r.ret.address),
                  ToString(r.ret.mnemonic)>>, r.wm, <<>>, 0)

handleImportWallet(wm, args) ==
    LET r == importWallet(wm, args.privateKey, args.mnemonic)
    IN  IF r.ok
        THEN Content(<<"Wallet imported successfully!", ToString(r.ret.address)>>,
                     r.wm, <<>>, 0)
        ELSE Raise(r.err, wm, <<>>, 0)

handleListWallets(wm) ==
    LET list == listWallets(wm)
        cur == getCurrentAddress(wm)
    IN  IF ~cur.ok THEN Raise(cur.err, wm, <<>>, 0)
        ELSE Content(Listing(list.ret.list, cur.ret), wm, <<>>, 0)

handleGetBalance(wm, args, node) ==
    IF Truthy(args.tokenAddress)
    THEN Rethrow("Failed to get balance: ", getTokenBalance(node),
                 <<"Token Balance:">>, wm, 0)
    ELSE Rethrow("Failed to get balance: ", getBalance(node),
                 <<"Native Balance:">>, wm, 0)

handleSendTransaction(wm, args, node) ==
    LET w == getCurrentWallet(wm)
        r == IF Truthy(args.tokenAddress) THEN sendTokenTransaction(w.ret, node)
             ELSE sendTransaction(w.ret, node)
    IN  IF ~w.ok
        THEN Raise(<<"Failed to send transaction: ">> \o ErrorToString(w.err), wm, <<>>, 0)
        ELSE Rethrow("Failed to send transaction: ", r,
                     <<"Transaction sent successfully!", "From: ",
                       ToString(IF r.ok THEN r.ret.from ELSE null),
                       "Status: ", IF r.ok THEN r.ret.status ELSE "">>,
                     wm, w.ret.pk)

handleGetTransaction(wm, node) ==
    LET r == getTransaction(node)
    IN  Rethrow("Failed to get transaction: ", r,
                <<"Transaction Details:", "Status: ",
                  IF r.ok THEN r.ret.status ELSE "">>, wm, 0)

handleGetBlock(wm, args, node) ==
    Rethrow("Failed to get block: ", getBlock(args.blockNumber, args.blockHash, node),
            <<"Block Information:">>, wm, 0)

handleGetNetworkInfo(wm, node) ==
    LET r == getNetworkInfo(node)
    IN  Rethrow("Failed to get network info: ", r,
                <<"Network Information:", "Connected: ",
                  IF r.ret.isConnected THEN "Yes" ELSE "No">>, wm, 0)

handleEstimateGas(wm, node) ==
    Rethrow("Failed to estimate gas: ", estimateGas(node), <<"Gas Estimate:">>, wm, 0)

handleCallContract(wm, node) ==
    Rethrow("Failed to call contract: ", callContract(node),
            <<"Contract Call Result:">>, wm, 0)

handleSendContractTransaction(wm, node) ==
    LET w == getCurrentWallet(wm)
        r == sendContractTransaction(w.ret, node)
    IN  IF ~w.ok
        THEN Raise(<<"Failed to send contract transaction: ">> \o ErrorToString(w.err),
                   wm, <<>>, 0)
        ELSE Rethrow("Failed to send contract transaction: ", r,
                     <<"Contract Transaction Sent:", "Status: ",
                       IF r.ok THEN r.ret.status ELSE "">>, wm, w.ret.pk)

handleSetCurrentWallet(wm, args) ==
    LET r == setCurrentWallet(wm, args.address)
    IN  IF r.ok
        THEN Content(<<"Current wallet set to: ", ToString(args.address)>>, r.wm, <<>>, 0)
        ELSE Raise(<<"Failed to set current wallet: ">> \o ErrorToString(r.err),
                   wm, <<>>, 0)

handleGetCurrentWallet(wm) ==
    LET cur == getCurrentAddress(wm)
        info == getWalletInfo(wm, cur.ret)
    IN  IF ~cur.ok
        THEN Raise(<<"Failed to get current wallet: ">> \o ErrorToString(cur.err),
                   wm, <<>>, 0)
        ELSE IF ~info.ok
        THEN Raise(<<"Failed to get current wallet: ">> \o ErrorToString(info.err),
                   wm, <<>>, 0)
        ELSE Content(<<"Current Wallet:", "Address: ", ToString(info.ret.address),
                       "Private Key: ", ToString(info.ret.privateKey)>>, wm, <<>>, 0)

handleDeployERC20Token(wm, args, node) ==
    LET w == getCurrentWallet(wm)
        r == deployERC20Token(w.ret, OrDefault(args.decimals, NumberArg(DefaultDecimals)),
                              node)
    IN  IF ~w.ok
        THEN Raise(<<"Failed to deploy ERC20 token: ">> \o ErrorToString(w.err),
                   wm, <<>>, 0)
        ELSE Rethrow("Failed to deploy ERC20 token: ", r,
                     <<"ERC20 Token Deployed Successfully!", "Decimals: ",
                       ToString(IF r.ok THEN r.ret.decimals.n ELSE 0), "Deployer: ",
                       ToString(IF r.ok THEN r.ret.deployer ELSE null)>>, wm, w.ret.pk)

handleGetTokenInfo(wm, node) ==
    Rethrow("Failed to get token info: ", getTokenInfo(node),
            <<"Token Information:">>, wm, 0)

handleMintTokens(wm, node) ==
    LET w == getCurrentWallet(wm)
        r == mintTokens(w.ret, node)
    IN  IF ~w.ok
        THEN Raise(<<"Failed to mint tokens: ">> \o ErrorToString(w.err), wm, <<>>, 0)
        ELSE Rethrow("Failed to mint tokens: ", r,
                     <<"Tokens Minted Successfully!", "Status: ",
                       IF r.ok THEN r.ret.status ELSE "">>, wm, w.ret.pk)

\* A faulty handler that reads the network before it looks the wallet up.
handleDeployERC721TokenReadingFirst(wm, node) ==
    LET n == getNetworkInfo(node)
        w == getCurrentWallet(wm)
        r == deployERC721Token(w.ret, node)
    IN  IF ~w.ok
        THEN Raise(<<"Failed to deploy ERC721 token: ">> \o ErrorToString(w.err),
                   wm, n.log, 0)
        ELSE Rethrow("Failed to deploy ERC721 token: ", r,
                     <<"ERC721 NFT Contract Deployed Successfully!", "Deployer: ",
                       ToString(IF r.ok THEN r.ret.deployer ELSE null)>>, wm, w.ret.pk)

handleDeployERC721Token(wm, node) ==
    LET w == getCurrentWallet(wm)
        r == deployERC721Token(w.ret, node)
    IN  IF ~w.ok
        THEN Raise(<<"Failed to deploy ERC721 token: ">> \o ErrorToString(w.err),
                   wm, <<>>, 0)
        ELSE Rethrow("Failed to deploy ERC721 token: ", r,
                     <<"ERC721 NFT Contract Deployed Successfully!", "Deployer: ",
                       ToString(IF r.ok THEN r.ret.deployer ELSE null)>>, wm, w.ret.pk)

handleGetNFTInfo(wm, args, node) ==
    Rethrow("Failed to get NFT info: ", getNFTInfo(args.tokenId, node),
            <<"NFT Information:">>, wm, 0)

handleMintNFT(wm, node) ==
    LET w == getCurrentWallet(wm)
        r == mintNFT(w.ret, node)
    IN  IF ~w.ok
        THEN Raise(<<"Failed to mint NFT: ">> \o ErrorToString(w.err), wm, <<>>, 0)
        ELSE Rethrow("Failed to mint NFT: ", r, <<"NFT Minted Successfully!">>,
                     wm, w.ret.pk)

\* The default case of the switch of the CallToolRequestSchema handler.
UnknownTool(name, wm) == Raise(<<"Unknown tool: ", name>>, wm, <<>>, 0)

\* What a tool call gives back to the MCP client: a tool result with one text
\* content, or (escaped = TRUE) an exception left to the protocol layer.
ToolResult(failed, text, h) ==
    [failed |-> failed, escaped |-> FALSE, text |-> text,
     wm |-> h.wm, log |-> h.log, signer |-> h.signer]

\* The request handler: the switch runs the handler h of the tool in a try
\* block; its catch clause returns `Error: ${error.message}` as text.
StdioCallTool(h) ==
    IF h.thrown THEN ToolResult(TRUE, <<"Error: ">> \o h.text, h)
    ELSE ToolResult(FALSE, h.text, h)

----------------------------------------------------------------------------
(* Tools of the Smithery server (smithery-server.ts)                        *)
(* Every tool callback has its own try/catch and returns its own error     *)
(* text.  Arguments are those the tool's zod schema admits.                *)

Done(text, wm, log, signer) ==
    [failed |-> FALSE, escaped |-> FALSE, text |-> text,
     wm |-> wm, log |-> log, signer |-> signer]
\* catch (error) { return text `<prefix>${error.message}` }
Caught(prefix, msg, wm, log, signer) ==
    [failed |-> TRUE, escaped |-> FALSE, text |-> <<prefix>> \o msg,
     wm |-> wm, log |-> log, signer |-> signer]

\* One client operation inside the tool's try block.
Guarded(prefix, r, text, wm, signer) ==
    IF r.ok THEN Done(text, wm, r.log, signer)
    ELSE Caught(prefix, r.err, wm, r.log, signer)

\* getWalletWithErrorHandling: the current wallet, or an Error whose message
\* explains how to configure one and ends with the original error.
getWalletWithErrorHandling(wm) ==
    LET w == getCurrentWallet(wm)
    IN  IF w.ok THEN w
        ELSE Thrown(wm, <<"No wallet configured for this operation!",
                          "Original error: ">> \o w.err)

tool_create_wallet(wm, k) ==
    LET r == createWallet(wm, k)
    IN  Done(<<"Wallet created successfully!", ToString(r.ret.address),
               ToString(r.ret.mnemonic)>>, r.wm, <<>>, 0)

tool_import_wallet(wm, args) ==
    LET r == importWallet(wm, args.privateKey, args.mnemonic)
    IN  IF r.ok
        THEN Done(<<"Wallet imported successfully!", ToString(r.ret.address)>>,
                  r.wm, <<>>, 0)
        ELSE Caught("Error importing wallet: ", r.err, wm, <<>>, 0)

tool_list_wallets(wm) ==
    LET list == listWallets(wm)
        cur == getCurrentAddress(wm)
    IN  IF ~cur.ok THEN Caught("Error listing wallets: ", cur.err, wm, <<>>, 0)
        ELSE Done(Listing(list.ret.list, cur.ret), wm, <<>>, 0)

tool_get_balance(wm, args, node) ==
    IF Truthy(args.tokenAddress)
    THEN Guarded("Error getting balance: ", getTokenBalance(node),
                 <<"Token Balance:">>, wm, 0)
    ELSE Guarded("Error getting balance: ", getBalance(node),
                 <<"Native Balance:">>, wm, 0)

tool_get_native_balance(wm, node) ==
    LET b == getBalance(node)
        n == getNetworkInfo(node)
    IN  IF ~b.ok THEN Caught("Error getting native balance: ", b.err, wm, b.log, 0)
        ELSE Done(<<"Native tRBTC Balance:">>, wm, b.log \o n.log, 0)

tool_send_transaction(wm, args, node) ==
    LET w == getCurrentWallet(wm)
        r == IF Truthy(args.tokenAddress) THEN sendTokenTransaction(w.ret, node)
             ELSE sendTransaction(w.ret, node)
    IN  IF ~w.ok
        THEN [failed |-> TRUE, escaped |-> FALSE,
              text |-> <<"No wallet configured for transactions!",
                         "Original error: ">> \o w.err,
              wm |-> wm, log |-> <<>>, signer |-> 0]
        ELSE Guarded("Error sending transaction: ", r,
                     <<"Transaction sent successfully!", "From: ",
                       ToString(IF r.ok THEN r.ret.from ELSE null),
                       "Status: ", IF r.ok THEN r.ret.status ELSE "">>,
                     wm, w.ret.pk)

tool_get_network_info(wm, node) ==
    LET r == getNetworkInfo(node)
    IN  Guarded("Error getting network info: ", r,
                <<"Network Information:", "Connected: ",
                  ToString(r.ret.isConnected)>>, wm, 0)

tool_get_transaction(wm, node) ==
    LET r == getTransaction(node)
    IN  Guarded("Error getting transaction: ", r,
                <<"Transaction Details:", "Status: ",
                  IF r.ok THEN r.ret.status ELSE "">>, wm, 0)

tool_get_block(wm, args, node) ==
    Guarded("Error getting block: ", getBlock(args.blockNumber, args.blockHash, node),
            <<"Block Information:">>, wm, 0)

tool_estimate_gas(wm, node) ==
    Guarded("Error estimating gas: ", estimateGas(node), <<"Gas Estimation:">>, wm, 0)

\* The callback only returns a note: it never calls the WalletManager.
tool_set_current_wallet(wm, args) ==
    Done(<<"Note: Setting current wallet functionality needs to be implemented in WalletManager. Address: ",
           ToString(args.address)>>, wm, <<>>, 0)

tool_get_current_wallet(wm) ==
    LET cur == getCurrentAddress(wm)
        w == getCurrentWallet(wm)
    IN  IF ~cur.ok THEN Caught("Error getting current wallet: ", cur.err, wm, <<>>, 0)
        ELSE IF ~w.ok THEN Caught("Error getting current wallet: ", w.err, wm, <<>>, 0)
        ELSE Done(<<"Current Wallet:", "Address: ", ToString(cur.ret)>>, wm, <<>>, 0)

tool_deploy_erc20_token(wm, args, node) ==
    LET w == getWalletWithErrorHandling(wm)
        r == deployERC20Token(w.ret, OrDefault(args.decimals, NumberArg(DefaultDecimals)),
                              node)
    IN  IF ~w.ok THEN Caught("Error deploying ERC20 token: ", w.err, wm, <<>>, 0)
        ELSE Guarded("Error deploying ERC20 token: ", r,
                     <<"ERC20 Token Deployed Successfully!", "Decimals: ",
                       ToString(IF r.ok THEN r.ret.decimals.n ELSE 0), "Deployer: ",
                       ToString(IF r.ok THEN r.ret.deployer ELSE null)>>, wm, w.ret.pk)

tool_get_token_info(wm, node) ==
    Guarded("Error getting token info: ", getTokenInfo(node),
            <<"ERC20 Token Information:">>, wm, 0)

tool_mint_tokens(wm, node) ==
    LET w == getWalletWithErrorHandling(wm)
        r == mintTokens(w.ret, node)
    IN  IF ~w.ok THEN Caught("Error minting tokens: ", w.err, wm, <<>>, 0)
        ELSE Guarded("Error minting tokens: ", r,
                     <<"Tokens Minted Successfully!", "From: ",
                       ToString(IF r.ok THEN r.ret.from ELSE null)>>, wm, w.ret.pk)

tool_deploy_erc721_token(wm, node) ==
    LET w == getWalletWithErrorHandling(wm)
        r == deployERC721Token(w.ret, node)
    IN  IF ~w.ok THEN Caught("Error deploying ERC721 token: ", w.err, wm, <<>>, 0)
        ELSE Guarded("Error deploying ERC721 token: ", r,
                     <<"ERC721 NFT Contract Deployed Successfully!", "Deployer: ",
                       ToString(IF r.ok THEN r.ret.deployer ELSE null)>>, wm, w.ret.pk)

tool_get_nft_info(wm, args, node) ==
    Guarded("Error getting NFT info: ", getNFTInfo(args.tokenId, node),
            <<"ERC721 NFT Information:">>, wm, 0)

tool_mint_nft(wm, node) ==
    LET w == getWalletWithErrorHandling(wm)
        r == mintNFT(w.ret, node)
    IN  IF ~w.ok THEN Caught("Error minting NFT: ", w.err, wm, <<>>, 0)
        ELSE Guarded("Error minting NFT: ", r, <<"NFT Minted Successfully!">>,
                     wm, w.ret.pk)

SmitheryTools == {"create_wallet", "import_wallet", "list_wallets", "get_balance",
                  "get_native_balance", "send_transaction", "get_network_info",
                  "get_transaction", "get_block", "estimate_gas", "set_current_wallet",
                  "get_current_wallet", "deploy_erc20_token", "get_token_info",
                  "mint_tokens", "deploy_erc721_token", "get_nft_info", "mint_nft"}
\* The tools that only read, and the tools that sign and send.
QueryTools == {"get_balance", "get_native_balance", "get_transaction", "get_block",
               "get_network_info", "estimate_gas", "call_contract", "get_token_info",
               "get_nft_info", "list_wallets", "get_current_wallet"}
TransactionTools == {"send_transaction", "send_contract_transaction",
                     "deploy_erc20_token", "mint_tokens", "deploy_erc721_token",
                     "mint_nft"}

----------------------------------------------------------------------------
(* Construction                                                             *)

SeqsUpTo(S, n) == UNION {[1..k -> S] : k \in 0..n}

\* The environment a process can start in.
EnvKeyEntries == {blankString, invalidString} \cup {PrivateKey(k) : k \in KeyIds}
\* An entry of ROOTSTOCK_ADDRESSES: empty, the address of the key beside it
\* or the address of another key.
EnvAddrEntries == {emptyAddr} \cup [id : KeyIds, cs : {"checksum"}]
EnvCurrent == {null} \cup [id : AddrIds, cs : {"upper"}]
\* config.privateKey of the Smithery session
ConfigKeys == {undefined, invalidString} \cup {PrivateKey(k) : k \in KeyIds}

\* createStatelessServer: new WalletManager(), then config.privateKey is
\* imported if provided; a failing import is logged and ignored.
createStatelessServer(wm, configKey) ==
    IF Truthy(configKey) THEN importWallet(wm, configKey, undefined).wm ELSE wm

\* A direct caller constructs the client with any config; the servers are
\* started with the defaults of index.ts / configSchema; a caller of the
\* WalletManager alone constructs no client.
Configs(h) ==
    CASE h = "rootstock-client" -> {RootstockConfig(c, n) : c \in {0, DefaultChainId},
                                                               n \in {"", DefaultNetworkName}}
      [] h \in {"stdio", "smithery"} -> {RootstockConfig(DefaultChainId, DefaultNetworkName)}
      [] OTHER -> {RootstockConfig(0, "")}

NoCall == [layer |-> "none", op |-> "", args |-> NoArgs, ok |-> TRUE, err |-> <<>>,
           text |-> <<>>, ret |-> void, log |-> <<>>, signer |-> 0,
           node |-> Answer(NoNode), pre |-> [current |-> null, count |-> 0]]

\* The programs that construct a WalletManager; a caller of the
\* RootstockClient alone holds none.
Hosts == {"stdio", "smithery", "wallet-manager"}

Init ==
    \/ \E keys \in SeqsUpTo(EnvKeyEntries, MaxEnvKeys),
          addrs \in SeqsUpTo(EnvAddrEntries, MaxEnvKeys),
          cur \in EnvCurrent,
          h \in Hosts :
           LET env == loadWalletsFromEnv(keys, addrs, cur)
           IN  \E configKey \in IF h = "smithery" THEN ConfigKeys ELSE {undefined} :
                   LET wm == IF h = "smithery"
                             THEN createStatelessServer(env, configKey)
                             ELSE env
                   IN  /\ host = h
                       /\ config \in Configs(h)
                       /\ wallets = wm.wallets
                       /\ currentWallet = wm.current
                       /\ last = NoCall
                       /\ inflight = EmptyBag
    \/ /\ host = "rootstock-client"
       /\ config \in Configs("rootstock-client")
       /\ wallets = <<>>
       /\ currentWallet = null
       /\ last = NoCall
       /\ inflight = EmptyBag

----------------------------------------------------------------------------
(* Calls                                                                    *)

Now == WM(wallets, currentWallet)
Pre == [current |-> currentWallet, count |-> Len(wallets)]
\* The host makes (or serves) one call at a time and is idle between calls.
Idle == last.layer = "none"

\* A method of the WalletManager called directly (as wallet-manager.test.ts does).
WMCall(op, args, r) ==
    /\ Idle
    /\ host = "wallet-manager"
    /\ wallets' = r.wm.wallets
    /\ currentWallet' = r.wm.current
    /\ last' = [layer |-> "wm", op |-> op, args |-> args, ok |-> r.ok, err |-> r.err,
                text |-> <<>>, ret |-> r.ret, log |-> <<>>, signer |-> 0,
                node |-> Answer(NoNode), pre |-> Pre]
    /\ UNCHANGED <<host, config, inflight>>

KeyArgs == {undefined, emptyString, blankString, invalidString}
               \cup {PrivateKey(k) : k \in KeyIds}
MnemonicArgs == {undefined, emptyString, invalidString, oddPhrase}
                    \cup {Mnemonic(k) : k \in KeyIds}

CreateWallet ==
    \E k \in KeyIds : WMCall("createWallet", NoArgs, createWallet(Now, k))
ImportWallet ==
    \E pk \in KeyArgs, mn \in MnemonicArgs :
        WMCall("importWallet", [NoArgs EXCEPT !.privateKey = pk, !.mnemonic = mn],
               importWallet(Now, pk, mn))
GetWallet ==
    \E a \in Addresses :
        WMCall("getWallet", [NoArgs EXCEPT !.address = a], getWallet(Now, a))
GetCurrentWallet == WMCall("getCurrentWallet", NoArgs, getCurrentWallet(Now))
SetCurrentWallet ==
    \E a \in Addresses :
        WMCall("setCurrentWallet", [NoArgs EXCEPT !.address = a], setCurrentWallet(Now, a))
ListWallets == WMCall("listWallets", NoArgs, listWallets(Now))
GetWalletInfo ==
    \E a \in Addresses :
        WMCall("getWalletInfo", [NoArgs EXCEPT !.address = a], getWalletInfo(Now, a))
GetCurrentAddress == WMCall("getCurrentAddress", NoArgs, getCurrentAddress(Now))
HasWallet ==
    \E a \in Addresses :
        WMCall("hasWallet", [NoArgs EXCEPT !.address = a], hasWallet(Now, a))
RemoveWallet ==
    \E a \in Addresses :
        WMCall("removeWallet", [NoArgs EXCEPT !.address = a], removeWallet(Now, a))
GetWalletCount == WMCall("getWalletCount", NoArgs, getWalletCount(Now))

\* The library calls each client operation can make.
CallsGetBalance == {"provider.getBalance"}
CallsGetTokenBalance == {"token.balanceOf", "token.decimals", "token.symbol", "token.name"}
CallsSendTransaction == {"ethers.parseEther", "wallet.sendTransaction", "transaction.wait"}
CallsSendTokenTransaction ==
    {"token.decimals", "ethers.parseUnits", "token.transfer", "transaction.wait"}
CallsGetTransaction == {"provider.getTransaction", "provider.getTransactionReceipt"}
CallsGetBlock == {"provider.getBlock(blockHash)", "provider.getBlock(blockNumber)",
                  "provider.getBlock(latest)"}
CallsGetNetworkInfo == {"provider.getNetwork", "provider.getBlockNumber",
                        "provider.getFeeData"}
CallsEstimateGas == {"ethers.parseEther", "provider.estimateGas", "provider.getFeeData"}
CallsCallContract == {"contract.call"}
CallsSendContractTransaction == {"ethers.parseEther", "contract.send", "transaction.wait"}
CallsDeployERC20Token == {"provider.getBalance", "BigInt", "factory.deploy",
                          "transaction.wait", "contract.getAddress"}
CallsGetTokenInfo == {"token.name", "token.symbol", "token.decimals",
                      "token.totalSupply", "token.owner"}
CallsMintTokens == {"token.decimals", "ethers.parseUnits", "token.mint", "transaction.wait"}
CallsDeployERC721Token == {"provider.getBalance", "factory.deploy", "transaction.wait",
                           "contract.getAddress"}
CallsMintNFT == {"BigInt", "nft.mint", "transaction.wait"}
CallsGetNFTInfo == {"nft.name", "nft.symbol", "nft.totalSupply", "nft.tokenURI",
                    "nft.ownerOf"}

\* At most MaxFailures of the calls fail in one invocation.
MaxFailures == 1
Failures(calls) == {f \in SUBSET calls : Cardinality(f) <= MaxFailures}
Reads(calls) == {NodeReply(f, 1, "status1", TRUE) : f \in Failures(calls)}
Sends(calls) == {NodeReply(f, 1, r, TRUE) : f \in Failures(calls), r \in Receipts}
Lookups(calls) ==
    {NodeReply(f, 1, r, fnd) : f \in Failures(calls), r \in Receipts, fnd \in BOOLEAN}
Blocks(calls) == {NodeReply(f, 1, "status1", fnd) : f \in Failures(calls), fnd \in BOOLEAN}
Deploys(calls) == {NodeReply(f, b, "status1", TRUE) : f \in Failures(calls), b \in {0, 1}}

SignerWallets == {WalletObj(k) : k \in KeyIds}
BlockNumbers == {undefined, NumberArg(0), NumberArg(1)}
BlockHashes == {undefined, emptyString, [t |-> "hash", n |-> 1]}
TokenIds == {undefined, emptyString, [t |-> "id", n |-> 1]}
TokenAddresses == {undefined, [t |-> "address", n |-> 1]}
DecimalsArgs == {undefined, NumberArg(0), NumberArg(6)}

\* An operation of the RootstockClient called directly.
ClientCall(op, args, signer, r, node) ==
    /\ Idle
    /\ host = "rootstock-client"
    /\ last' = [layer |-> "client", op |-> op, args |-> args, ok |-> r.ok, err |-> r.err,
                text |-> <<>>, ret |-> r.ret, log |-> r.log, signer |-> signer,
                node |-> Answer(node), pre |-> Pre]
    /\ UNCHANGED <<host, wallets, config, currentWallet, inflight>>

GetBalance ==
    \E node \in Reads(CallsGetBalance) : ClientCall("getBalance", NoArgs, 0, getBalance(node), node)
GetTokenBalance ==
    \E node \in Reads(CallsGetTokenBalance) :
        ClientCall("getTokenBalance", NoArgs, 0, getTokenBalance(node), node)
SendTransaction ==
    \E w \in SignerWallets, node \in Sends(CallsSendTransaction) :
        ClientCall("sendTransaction", NoArgs, w.pk, sendTransaction(w, node), node)
SendTokenTransaction ==
    \E w \in SignerWallets, node \in Sends(CallsSendTokenTransaction) :
        ClientCall("sendTokenTransaction", NoArgs, w.pk, sendTokenTransaction(w, node), node)
GetTransaction ==
    \E node \in Lookups(CallsGetTransaction) :
        ClientCall("getTransaction", NoArgs, 0, getTransaction(node), node)
GetBlock ==
    \E n \in BlockNumbers, h \in BlockHashes, node \in Blocks(CallsGetBlock) :
        ClientCall("getBlock", [NoArgs EXCEPT !.blockNumber = n, !.blockHash = h], 0,
                   getBlock(n, h, node), node)
GetNetworkInfo ==
    \E node \in Reads(CallsGetNetworkInfo) :
        ClientCall("getNetworkInfo", NoArgs, 0, getNetworkInfo(node), node)
EstimateGas ==
    \E node \in Reads(CallsEstimateGas) :
        ClientCall("estimateGas", NoArgs, 0, estimateGas(node), node)
CallContract ==
    \E node \in Reads(CallsCallContract) :
        ClientCall("callContract", NoArgs, 0, callContract(node), node)
SendContractTransaction ==
    \E w \in SignerWallets, node \in Sends(CallsSendContractTransaction) :
        ClientCall("sendContractTransaction", NoArgs, w.pk,
                   sendContractTransaction(w, node), node)
DeployERC20Token ==
    \E w \in SignerWallets, d \in DecimalsArgs, node \in Deploys(CallsDeployERC20Token) :
        ClientCall("deployERC20Token", [NoArgs EXCEPT !.decimals = d], w.pk,
                   deployERC20Token(w, d, node), node)
GetTokenInfo ==
    \E node \in Reads(CallsGetTokenInfo) :
        ClientCall("getTokenInfo", NoArgs, 0, getTokenInfo(node), node)
MintTokens ==
    \E w \in SignerWallets, node \in Sends(CallsMintTokens) :
        ClientCall("mintTokens", NoArgs, w.pk, mintTokens(w, node), node)
DeployERC721Token ==
    \E w \in SignerWallets, node \in Deploys(CallsDeployERC721Token) :
        ClientCall("deployERC721Token", NoArgs, w.pk, deployERC721Token(w, node), node)
MintNFT ==
    \E w \in SignerWallets, node \in Sends(CallsMintNFT) :
        ClientCall("mintNFT", NoArgs, w.pk, mintNFT(w, node), node)
GetNFTInfo ==
    \E t \in TokenIds, node \in Reads(CallsGetNFTInfo) :
        ClientCall("getNFTInfo", [NoArgs EXCEPT !.tokenId = t], 0, getNFTInfo(t, node), node)

\* A tools/call request to the running server: `stdio` is the run of the
\* handler the switch of index.ts selects, `smithery` the result of the
\* callback registered under the name.  The Smithery server answers only for
\* the tools it registered (the SDK rejects other names itself).
CallTool(name, args, stdio, smithery, node) ==
    /\ Idle
    /\ host \in {"stdio", "smithery"}
    /\ host = "smithery" => name \in SmitheryTools
    /\ LET r == IF host = "stdio" THEN StdioCallTool(stdio) ELSE smithery
       IN  /\ wallets' = r.wm.wallets
           /\ currentWallet' = r.wm.current
           /\ last' = [layer |-> "tool", op |-> name, args |-> args, ok |-> ~r.failed,
                       err |-> <<>>, text |-> r.text, ret |-> [escaped |-> r.escaped], log |-> r.log,
                       signer |-> r.signer, node |-> Answer(node), pre |-> Pre]
    /\ UNCHANGED <<host, config, inflight>>

\* params.address of set_current_wallet; index.ts checks no schema, so the
\* argument can be missing there.
ToolAddresses == IF host = "stdio" THEN Addresses \cup {null} ELSE Addresses

Tool_create_wallet ==
    \E k \in KeyIds :
        CallTool("create_wallet", NoArgs, handleCreateWallet(Now, k),
                 tool_create_wallet(Now, k), NoNode)
Tool_import_wallet ==
    \E pk \in KeyArgs, mn \in MnemonicArgs :
        LET args == [NoArgs EXCEPT !.privateKey = pk, !.mnemonic = mn]
        IN  CallTool("import_wallet", args, handleImportWallet(Now, args),
                     tool_import_wallet(Now, args), NoNode)
Tool_list_wallets ==
    CallTool("list_wallets", NoArgs, handleListWallets(Now), tool_list_wallets(Now), NoNode)
Tool_get_balance ==
    \E t \in TokenAddresses :
    \E node \in Reads(IF Truthy(t) THEN CallsGetTokenBalance ELSE CallsGetBalance) :
        LET args == [NoArgs EXCEPT !.tokenAddress = t]
        IN  CallTool("get_balance", args, handleGetBalance(Now, args, node),
                     tool_get_balance(Now, args, node), node)
\* index.ts has no case for get_native_balance.
Tool_get_native_balance ==
    \E node \in Reads(CallsGetBalance \cup CallsGetNetworkInfo) :
        CallTool("get_native_balance", NoArgs, UnknownTool("get_native_balance", Now),
                 tool_get_native_balance(Now, node), node)
Tool_send_transaction ==
    \E t \in TokenAddresses :
    \E node \in Sends(IF Truthy(t) THEN CallsSendTokenTransaction
                       ELSE CallsSendTransaction) :
        LET args == [NoArgs EXCEPT !.tokenAddress = t]
        IN  CallTool("send_transaction", args, handleSendTransaction(Now, args, node),
                     tool_send_transaction(Now, args, node), node)
Tool_get_transaction ==
    \E node \in Lookups(CallsGetTransaction) :
        CallTool("get_transaction", NoArgs, handleGetTransaction(Now, node),
                 tool_get_transaction(Now, node), node)
Tool_get_block ==
    \E n \in BlockNumbers, h \in BlockHashes, node \in Blocks(CallsGetBlock) :
        LET args == [NoArgs EXCEPT !.blockNumber = n, !.blockHash = h]
        IN  CallTool("get_block", args, handleGetBlock(Now, args, node),
                     tool_get_block(Now, args, node), node)
Tool_get_network_info ==
    \E node \in Reads(CallsGetNetworkInfo) :
        CallTool("get_network_info", NoArgs, handleGetNetworkInfo(Now, node),
                 tool_get_network_info(Now, node), node)
Tool_estimate_gas ==
    \E node \in Reads(CallsEstimateGas) :
        CallTool("estimate_gas", NoArgs, handleEstimateGas(Now, node),
                 tool_estimate_gas(Now, node), node)
\* The Smithery server registers no call_contract and no
\* send_contract_transaction tool.
Tool_call_contract ==
    \E node \in Reads(CallsCallContract) :
        CallTool("call_contract", NoArgs, handleCallContract(Now, node),
                 Done(<<>>, Now, <<>>, 0), node)
Tool_send_contract_transaction ==
    \E node \in Sends(CallsSendContractTransaction) :
        CallTool("send_contract_transaction", NoArgs,
                 handleSendContractTransaction(Now, node), Done(<<>>, Now, <<>>, 0), node)
Tool_set_current_wallet ==
    \E a \in ToolAddresses :
        LET args == [NoArgs EXCEPT !.address = a]
        IN  CallTool("set_current_wallet", args, handleSetCurrentWallet(Now, args),
                     tool_set_current_wallet(Now, args), NoNode)
Tool_get_current_wallet ==
    CallTool("get_current_wallet", NoArgs, handleGetCurrentWallet(Now),
             tool_get_current_wallet(Now), NoNode)
Tool_deploy_erc20_token ==
    \E d \in DecimalsArgs, node \in Deploys(CallsDeployERC20Token) :
        LET args == [NoArgs EXCEPT !.decimals = d]
        IN  CallTool("deploy_erc20_token", args, handleDeployERC20Token(Now, args, node),
                     tool_deploy_erc20_token(Now, args, node), node)
Tool_get_token_info ==
    \E node \in Reads(CallsGetTokenInfo) :
        CallTool("get_token_info", NoArgs, handleGetTokenInfo(Now, node),
                 tool_get_token_info(Now, node), node)
Tool_mint_tokens ==
    \E node \in Sends(CallsMintTokens) :
        CallTool("mint_tokens", NoArgs, handleMintTokens(Now, node),
                 tool_mint_tokens(Now, node), node)
Tool_deploy_erc721_token ==
    \E node \in Deploys(CallsDeployERC721Token) :
        CallTool("deploy_erc721_token", NoArgs, handleDeployERC721Token(Now, node),
                 tool_deploy_erc721_token(Now, node), node)
Tool_get_nft_info ==
    \E t \in TokenIds, node \in Reads(CallsGetNFTInfo) :
        LET args == [NoArgs EXCEPT !.tokenId = t]
        IN  CallTool("get_nft_info", args, handleGetNFTInfo(Now, args, node),
                     tool_get_nft_info(Now, args, node), node)
Tool_mint_nft ==
    \E node \in Sends(CallsMintNFT) :
        CallTool("mint_nft", NoArgs, handleMintNFT(Now, node), tool_mint_nft(Now, node), node)
\* A name the switch of index.ts has no case for.
Tool_unknown ==
    /\ host = "stdio"
    /\ CallTool("no_such_tool", NoArgs, UnknownTool("no_such_tool", Now),
                Done(<<>>, Now, <<>>, 0), NoNode)

\* The caller takes the result; the server awaits the next call.
Reply ==
    /\ ~Idle
    /\ last' = NoCall
    /\ UNCHANGED <<host, wallets, config, currentWallet, inflight>>

Next ==
    \/ Reply
    \/ CreateWallet \/ ImportWallet \/ GetWallet \/ GetCurrentWallet
    \/ SetCurrentWallet \/ ListWallets \/ GetWalletInfo \/ GetCurrentAddress
    \/ HasWallet \/ RemoveWallet \/ GetWalletCount
    \/ GetBalance \/ GetTokenBalance \/ SendTransaction \/ SendTokenTransaction
    \/ GetTransaction \/ GetBlock \/ GetNetworkInfo \/ EstimateGas \/ CallContract
    \/ SendContractTransaction \/ DeployERC20Token \/ GetTokenInfo \/ MintTokens
    \/ DeployERC721Token \/ MintNFT \/ GetNFTInfo
    \/ Tool_create_wallet \/ Tool_import_wallet \/ Tool_list_wallets
    \/ Tool_get_balance \/ Tool_get_native_balance \/ Tool_send_transaction
    \/ Tool_get_transaction \/ Tool_get_block \/ Tool_get_network_info
    \/ Tool_estimate_gas \/ Tool_call_contract \/ Tool_send_contract_transaction
    \/ Tool_set_current_wallet \/ Tool_get_current_wallet \/ Tool_deploy_erc20_token
    \/ Tool_get_token_info \/ Tool_mint_tokens \/ Tool_deploy_erc721_token
    \/ Tool_get_nft_info \/ Tool_mint_nft \/ Tool_unknown

Spec == Init /\ [][Next]_vars

----------------------------------------------------------------------------
(* Construction alone: new WalletManager() under an environment with longer *)
(* lists than the servers above are started with.                          *)

EnvListLen == MaxEnvKeys + 1
\* An entry of ROOTSTOCK_ADDRESSES may also name an address no key derives.
EnvAnyAddrEntries == {emptyAddr} \cup [id : AddrIds, cs : {"checksum"}]

\* The fields as their initialisers leave them, before the constructor body.
EnvInit ==
    /\ host = "wallet-manager"
    /\ config = RootstockConfig(0, "")
    /\ wallets = <<>>
    /\ currentWallet = null
    /\ last = NoCall
    /\ inflight = EmptyBag

\* constructor(): loadWalletsFromEnv() under the environment of the process.
Constructor ==
    /\ Idle
    /\ Len(wallets) = 0
    /\ \E keys \in SeqsUpTo(EnvKeyEntries, EnvListLen),
          addrs \in SeqsUpTo(EnvAnyAddrEntries, EnvListLen),
          cur \in EnvCurrent :
           LET wm == loadWalletsFromEnv(keys, addrs, cur)
           IN  /\ wallets' = wm.wallets
               /\ currentWallet' = wm.current
               /\ last' = [NoCall EXCEPT !.layer = "new", !.op = "constructor",
                                         !.args = [privateKeys |-> keys,
                                                   addresses |-> addrs,
                                                   currentAddress |-> cur]]
               /\ UNCHANGED <<host, config, inflight>>

EnvNext == Constructor

SpecEnv == EnvInit /\ [][EnvNext]_vars

----------------------------------------------------------------------------
(* The WalletManager alone, driven as wallet-manager.test.ts drives it,    *)
(* after construction under an environment whose ROOTSTOCK_ADDRESSES may    *)
(* name any address.                                                        *)

StoreInit ==
    \E keys \in SeqsUpTo(EnvKeyEntries, MaxEnvKeys),
       addrs \in SeqsUpTo(EnvAnyAddrEntries, MaxEnvKeys),
       cur \in EnvCurrent :
        LET wm == loadWalletsFromEnv(keys, addrs, cur)
        IN  /\ host = "wallet-manager"
            /\ config = RootstockConfig(0, "")
            /\ wallets = wm.wallets
            /\ currentWallet = wm.current
            /\ last = NoCall
            /\ inflight = EmptyBag

StoreNext ==
    \/ Reply
    \/ CreateWallet \/ ImportWallet \/ GetWallet \/ GetCurrentWallet
    \/ SetCurrentWallet \/ ListWallets \/ GetWalletInfo \/ GetCurrentAddress
    \/ HasWallet \/ RemoveWallet \/ GetWalletCount

SpecStore == StoreInit /\ [][StoreNext]_vars

----------------------------------------------------------------------------
(* Construction of the Smithery server: configSchema and createServer.     *)
(* A configuration value is a JavaScript value: its type, and its number   *)
(* or its text.                                                            *)

JsUndefined == [t |-> "undefined", n |-> 0, s |-> ""]
JsString(s) == [t |-> "string", n |-> 0, s |-> s]
JsNumber(n) == [t |-> "number", n |-> n, s |-> ""]
JsBoolean(b) == [t |-> "boolean", n |-> IF b THEN 1 ELSE 0, s |-> ""]

\* a || b : undefined, 0, '' and false are falsy.
Falsy(v) ==
    \/ v.t = "undefined"
    \/ v.t = "number" /\ v.n = 0
    \/ v.t = "string" /\ v.s = ""
    \/ v.t = "boolean" /\ v.n = 0
Or(v, dflt) == IF Falsy(v) THEN dflt ELSE v

DefaultRpcUrl == "https://public-node.testnet.rsk.co"
DefaultExplorerUrl == "https://explorer.testnet.rootstock.io"
DefaultCurrencySymbol == "tRBTC"

\* The fields of configSchema other than privateKey, each with its zod type
\* and its .default(...).
ConfigFields == {"rpcUrl", "chainId", "networkName", "explorerUrl", "currencySymbol",
                 "debug"}
ConfigTypes == [rpcUrl |-> "string", chainId |-> "number", networkName |-> "string",
                explorerUrl |-> "string", currencySymbol |-> "string",
                debug |-> "boolean"]
ConfigDefaults == [rpcUrl |-> JsString(DefaultRpcUrl),
                   chainId |-> JsNumber(DefaultChainId),
                   networkName |-> JsString(DefaultNetworkName),
                   explorerUrl |-> JsString(DefaultExplorerUrl),
                   currencySymbol |-> JsString(DefaultCurrencySymbol),
                   debug |-> JsBoolean(FALSE)]

\* z.<type>().default(d).parse(v): d for undefined, v if it has the type,
\* else a ZodError.
ZodAccepts(type, v) == v.t \in {"undefined", type}
ZodDefault(v, dflt) == IF v.t = "undefined" THEN dflt ELSE v

\* configSchema.parse(input); privateKey is z.string().optional().
configSchemaParse(input) ==
    IF \E f \in ConfigFields : ~ZodAccepts(ConfigTypes[f], input[f])
    THEN [ok |-> FALSE, config |-> input]
    ELSE [ok |-> TRUE,
          config |-> [privateKey |-> input.privateKey,
                      rpcUrl |-> ZodDefault(input.rpcUrl, ConfigDefaults.rpcUrl),
                      chainId |-> ZodDefault(input.chainId, ConfigDefaults.chainId),
                      networkName |-> ZodDefault(input.networkName,
                                                 ConfigDefaults.networkName),
                      explorerUrl |-> ZodDefault(input.explorerUrl,
                                                 ConfigDefaults.explorerUrl),
                      currencySymbol |-> ZodDefault(input.currencySymbol,
                                                    ConfigDefaults.currencySymbol),
                      debug |-> ZodDefault(input.debug, ConfigDefaults.debug)]]

\* createServer: serverConfig, built with config?.<field> || <default>.
serverConfig(input) ==
    [privateKey |-> input.privateKey,
     rpcUrl |-> Or(input.rpcUrl, JsString(DefaultRpcUrl)),
     chainId |-> Or(input.chainId, JsNumber(DefaultChainId)),
     networkName |-> Or(input.networkName, JsString(DefaultNetworkName)),
     explorerUrl |-> Or(input.explorerUrl, JsString(DefaultExplorerUrl)),
     currencySymbol |-> Or(input.currencySymbol, JsString(DefaultCurrencySymbol)),
     debug |-> Or(input.debug, JsBoolean(FALSE))]

\* createStatelessServer: the RootstockConfig handed to new RootstockClient.
rootstockConfig(cfg) ==
    [rpcUrl |-> cfg.rpcUrl, chainId |-> cfg.chainId, networkName |-> cfg.networkName,
     explorerUrl |-> cfg.explorerUrl, currencySymbol |-> cfg.currencySymbol]

\* What a caller can put in a field: nothing, a falsy value of the field's
\* type, or another value of that type.
StringInputs(custom) == {JsUndefined, JsString(""), JsString(custom)}
\* The session configurations createServer is called with: every field is
\* missing or of the type the schema declares.
ConfigInputs ==
    [privateKey : ConfigKeys,
     rpcUrl : StringInputs("https://custom-rpc.example.com"),
     chainId : {JsUndefined, JsNumber(0), JsNumber(12345)},
     networkName : StringInputs("Custom Network"),
     explorerUrl : StringInputs("https://custom-explorer.example.com"),
     currencySymbol : StringInputs("CUSTOM"),
     debug : {JsUndefined, JsBoolean(FALSE), JsBoolean(TRUE)}]
\* What configSchema.parse can be given: also a chainId that is no number.
RawConfigs ==
    ConfigInputs \cup {[c EXCEPT !.chainId = JsString("invalid")] : c \in ConfigInputs}

\* What new WalletManager() builds under the environments a server starts in.
EnvManagers ==
    {loadWalletsFromEnv(keys, addrs, cur) :
        keys \in SeqsUpTo(EnvKeyEntries, MaxEnvKeys),
        addrs \in SeqsUpTo(EnvAddrEntries, MaxEnvKeys),
        cur \in EnvCurrent}

\* Before the module's exports are called: no WalletManager, no client.
ServerInit ==
    /\ host = "smithery"
    /\ config = RootstockConfig(0, "")
    /\ wallets = <<>>
    /\ currentWallet = null
    /\ last = NoCall
    /\ inflight = EmptyBag

ParseConfig ==
    /\ Idle
    /\ Len(wallets) = 0
    /\ \E input \in RawConfigs :
           LET r == configSchemaParse(input)
           IN  last' = [NoCall EXCEPT !.layer = "new", !.op = "configSchema.parse",
                                      !.args = input, !.ok = r.ok,
                                      !.ret = [config |-> r.config]]
    /\ UNCHANGED <<host, wallets, config, currentWallet, inflight>>

\* createServer({ config }) under the environment of the process: builds
\* serverConfig and calls createStatelessServer, which constructs the client
\* and the WalletManager and imports config.privateKey.
CreateServer ==
    /\ Idle
    /\ Len(wallets) = 0
    /\ \E input \in ConfigInputs, env \in EnvManagers :
           LET cfg == serverConfig(input)
               wm == createStatelessServer(env, cfg.privateKey)
           IN  /\ config' = RootstockConfig(cfg.chainId.n, cfg.networkName.s)
               /\ wallets' = wm.wallets
               /\ currentWallet' = wm.current
               /\ last' = [NoCall EXCEPT !.layer = "new", !.op = "createServer",
                                         !.args = input,
                                         !.ret = [config |-> cfg,
                                                  client |-> rootstockConfig(cfg),
                                                  constructed |-> env]]
    /\ UNCHANGED <<host, inflight>>

ServerNext == ParseConfig \/ CreateServer

SpecServer == ServerInit /\ [][ServerNext]_vars

----------------------------------------------------------------------------
(* The event loop                                                           *)
(* A transaction handler looks the current wallet up in its first statement *)
(* and then awaits the client; while it is suspended the server serves     *)
(* other calls.  Neither the rest of the handler nor the client reads the   *)
(* WalletManager again.                                                     *)

\* Transaction handlers suspended at one time.
MaxInFlight == 1

\* const wallet = this.walletManager.getCurrentWallet(), as the handler
\* holds it across its await.
Holding(wallet) == StoreWallet(WM(<<>>, null), wallet)
\* A faulty handler that looks the wallet up again once the await is over.
ResumedRereading(frame, wm) == wm
\* The WalletManager as the resumed handler of `frame` sees it: only through
\* the wallet it holds, whatever `wm` has become.
Resumed(frame, wm) == Holding(frame.wallet)

\* The handler runs up to its await: the wallet lookup succeeded.
Start(name, args) ==
    /\ Idle
    /\ host \in {"stdio", "smithery"}
    /\ host = "smithery" => name \in SmitheryTools
    /\ BagCardinality(inflight) < MaxInFlight
    /\ getCurrentWallet(Now).ok
    /\ inflight' = inflight (+) SetToBag({[op |-> name, args |-> args,
                                           wallet |-> getCurrentWallet(Now).ret]})
    /\ UNCHANGED <<host, wallets, config, currentWallet, last>>

StartTransactionTool ==
    \E name \in TransactionTools, t \in TokenAddresses :
        Start(name, [NoArgs EXCEPT
                         !.tokenAddress = IF name = "send_transaction" THEN t ELSE undefined])

\* The lookup fails: the handler ends in its catch clause without awaiting.
StartWithoutWallet ==
    /\ ~getCurrentWallet(Now).ok
    /\ \/ Tool_send_transaction
       \/ Tool_send_contract_transaction
       \/ Tool_deploy_erc20_token
       \/ Tool_mint_tokens
       \/ Tool_deploy_erc721_token
       \/ Tool_mint_nft

\* The await of the handler `frame` is over: the rest of the handler runs and
\* the call returns.  No statement after the lookup touches the WalletManager.
Settle(frame, stdio, smithery, node) ==
    /\ Idle
    /\ LET r == IF host = "stdio" THEN StdioCallTool(stdio) ELSE smithery
       IN  last' = [layer |-> "tool", op |-> frame.op, args |-> frame.args,
                    ok |-> ~r.failed, err |-> <<>>, text |-> r.text,
                    ret |-> [escaped |-> r.escaped], log |-> r.log,
                    signer |-> r.signer, node |-> Answer(node), pre |-> Pre]
    /\ inflight' = inflight (-) SetToBag({frame})
    /\ UNCHANGED <<host, wallets, config, currentWallet>>

Finish_send_transaction ==
    \E frame \in BagToSet(inflight) :
        /\ frame.op = "send_transaction"
        /\ \E node \in Sends(IF Truthy(frame.args.tokenAddress)
                             THEN CallsSendTokenTransaction ELSE CallsSendTransaction) :
               LET wm == Resumed(frame, Now)
                   args == frame.args
               IN  Settle(frame, handleSendTransaction(wm, args, node),
                          tool_send_transaction(wm, args, node), node)
Finish_send_contract_transaction ==
    \E frame \in BagToSet(inflight) :
        /\ frame.op = "send_contract_transaction"
        /\ \E node \in Sends(CallsSendContractTransaction) :
               LET wm == Resumed(frame, Now)
               IN  Settle(frame, handleSendContractTransaction(wm, node),
                          Done(<<>>, wm, <<>>, 0), node)
Finish_deploy_erc20_token ==
    \E frame \in BagToSet(inflight) :
        /\ frame.op = "deploy_erc20_token"
        /\ \E node \in Deploys(CallsDeployERC20Token) :
               LET wm == Resumed(frame, Now)
                   args == frame.args
               IN  Settle(frame, handleDeployERC20Token(wm, args, node),
                          tool_deploy_erc20_token(wm, args, node), node)
Finish_mint_tokens ==
    \E frame \in BagToSet(inflight) :
        /\ frame.op = "mint_tokens"
        /\ \E node \in Sends(CallsMintTokens) :
               LET wm == Resumed(frame, Now)
               IN  Settle(frame, handleMintTokens(wm, node), tool_mint_tokens(wm, node), node)
Finish_deploy_erc721_token ==
    \E frame \in BagToSet(inflight) :
        /\ frame.op = "deploy_erc721_token"
        /\ \E node \in Deploys(CallsDeployERC721Token) :
               LET wm == Resumed(frame, Now)
               IN  Settle(frame, handleDeployERC721Token(wm, node),
                          tool_deploy_erc721_token(wm, node), node)
Finish_mint_nft ==
    \E frame \in BagToSet(inflight) :
        /\ frame.op = "mint_nft"
        /\ \E node \in Sends(CallsMintNFT) :
               LET wm == Resumed(frame, Now)
               IN  Settle(frame, handleMintNFT(wm, node), tool_mint_nft(wm, node), node)

\* A server whose environment named no wallet: the wallets come from
\* create_wallet and import_wallet.
LoopInit == Init /\ host \in {"stdio", "smithery"} /\ wallets = <<>>

LoopNext ==
    \/ Reply
    \/ Tool_create_wallet
    \/ Tool_import_wallet
    \/ Tool_set_current_wallet
    \/ StartTransactionTool
    \/ StartWithoutWallet
    \/ Finish_send_transaction
    \/ Finish_send_contract_transaction
    \/ Finish_deploy_erc20_token
    \/ Finish_mint_tokens
    \/ Finish_deploy_erc721_token
    \/ Finish_mint_nft

SpecLoop == LoopInit /\ [][LoopNext]_vars

----------------------------------------------------------------------------
(* Properties                                                               *)
(* A step that makes a call leaves the call and its outcome in last', with *)
(* the state the call started from still in the unprimed variables.        *)

WMCalled(ops) == last'.layer = "wm" /\ last'.op \in ops
ClientCalled(ops) == last'.layer = "client" /\ last'.op \in ops
ToolCalled(ops) == last'.layer = "tool" /\ last'.op \in ops
After == WM(wallets', currentWallet')
StoreUnchanged == wallets' = wallets /\ currentWallet' = currentWallet
Stored(a) == MapHas(wallets, toLowerCase(a))

\* A successful set_current_wallet naming a stored address makes that wallet
\* the one getCurrentWallet hands to the signing tools.
Selects(a) ==
    /\ currentWallet' = toLowerCase(a)
    /\ getCurrentWallet(After).ok
    /\ getCurrentWallet(After).ret = MapGet(wallets, toLowerCase(a))

\* C1: after a set_current_wallet tool call that names a stored address A and
\* reports success, the active wallet is A, and it stays A through every tool
\* call other than set_current_wallet -- on the stdio and on the Smithery
\* server alike.
C1_SetCurrentWalletSelects ==
    [][/\ (/\ ToolCalled({"set_current_wallet"})
           /\ last'.ok
           /\ last'.args.address # null
           /\ Stored(last'.args.address)) => Selects(last'.args.address)
       /\ (/\ last'.layer = "tool"
           /\ last'.op # "set_current_wallet"
           /\ currentWallet # null) => currentWallet' = currentWallet]_vars

\* C1 on the stdio server alone: handleSetCurrentWallet selects the wallet.
C1_StdioSelects ==
    [][(/\ host = "stdio"
        /\ ToolCalled({"set_current_wallet"})
        /\ last'.ok
        /\ last'.args.address # null
        /\ Stored(last'.args.address)) => Selects(last'.args.address)]_vars

\* C1, reached: the Smithery server reported success for a stored address that
\* is not the current wallet.
C1_SmitheryNoteReached ==
    /\ host = "smithery"
    /\ last.layer = "tool" /\ last.op = "set_current_wallet" /\ last.ok
    /\ MapHas(wallets, toLowerCase(last.args.address))
    /\ currentWallet # toLowerCase(last.args.address)

\* C2: a successful createWallet / importWallet makes the stored wallet the
\* current one when no current wallet is set (getCurrentAddress then returns
\* its address), and leaves the selection unchanged when one is set.
C2_StoreSelectsOnlyWhenUnset ==
    [][(WMCalled({"createWallet", "importWallet"}) /\ last'.ok) =>
         IF currentWallet = null
         THEN /\ currentWallet' = toLowerCase(last'.ret.address)
              /\ getCurrentAddress(After).ok
              /\ getCurrentAddress(After).ret = last'.ret.address
         ELSE currentWallet' = currentWallet]_vars

\* C2, reached: a wallet other than the current one was imported while a
\* current wallet was set, and the selection stayed.
C2_ImportedBesideCurrent ==
    /\ last.layer = "wm" /\ last.op = "importWallet" /\ last.ok
    /\ last.pre.current # null
    /\ currentWallet = last.pre.current
    /\ toLowerCase(last.ret.address) # currentWallet
    /\ MapHas(wallets, toLowerCase(last.ret.address))

\* Keys of the store are lower-case and no two name the same address.
LowerCasedKeys ==
    \A i, j \in 1..Len(wallets) :
        /\ wallets[i].key = toLowerCase(wallets[i].key)
        /\ toLowerCase(wallets[i].key) = toLowerCase(wallets[j].key) => i = j

\* C3: the store is keyed by lower-cased address: no two entries have
\* addresses that differ only in letter case, and hasWallet, getWallet,
\* setCurrentWallet and removeWallet called with any letter-case variant of a
\* stored address act on the entry of that address.
C3_CaseInsensitiveStore ==
    /\ []LowerCasedKeys
    /\ [][(/\ WMCalled({"hasWallet", "getWallet", "setCurrentWallet", "removeWallet"})
           /\ Stored(last'.args.address)) =>
            LET key == toLowerCase(last'.args.address)
            IN  /\ last'.ok
                /\ last'.op = "hasWallet" => last'.ret.has
                /\ last'.op = "getWallet" => last'.ret = MapGet(wallets, key)
                /\ last'.op = "setCurrentWallet" =>
                       currentWallet' = key /\ wallets' = wallets
                /\ last'.op = "removeWallet" =>
                       wallets' = MapDelete(wallets, key) /\ ~MapHas(wallets', key)]_vars

\* C3, reached: a wallet was removed through the upper-case form of its
\* address while another wallet stays stored.
C3_RemovedByUpperCase ==
    /\ last.layer = "wm" /\ last.op = "removeWallet" /\ last.ok
    /\ last.args.address.cs = "upper"
    /\ Len(wallets) = last.pre.count - 1
    /\ Len(wallets) > 0

\* C4: while no wallet is stored, getCurrentWallet and getCurrentAddress fail
\* with 'No current wallet set' and change neither store nor selection.
C4_NoCurrentWalletSet ==
    [][(WMCalled({"getCurrentWallet", "getCurrentAddress"}) /\ Len(wallets) = 0) =>
         /\ ~last'.ok
         /\ Contains(last'.err, "No current wallet set")
         /\ StoreUnchanged]_vars

\* C4, reached: getCurrentAddress failed on an empty store.
C4_FailedOnEmptyStore ==
    /\ last.layer = "wm" /\ last.op = "getCurrentAddress" /\ ~last.ok
    /\ Contains(last.err, "No current wallet set")
    /\ last.pre.count = 0 /\ Len(wallets) = 0 /\ currentWallet = null

\* C5: getWallet, setCurrentWallet and removeWallet called with an address
\* that is not stored fail with 'Wallet not found for address' and change
\* neither store nor selection.
C5_WalletNotFound ==
    [][(/\ WMCalled({"getWallet", "setCurrentWallet", "removeWallet"})
        /\ ~Stored(last'.args.address)) =>
         /\ ~last'.ok
         /\ Contains(last'.err, "Wallet not found for address: ")
         /\ StoreUnchanged]_vars

\* C5, reached: removeWallet of an address that is not stored failed on a
\* store that holds other wallets.
C5_RemoveUnknownFailed ==
    /\ last.layer = "wm" /\ last.op = "removeWallet" /\ ~last.ok
    /\ Contains(last.err, "Wallet not found for address: ")
    /\ ~MapHas(wallets, toLowerCase(last.args.address))
    /\ Len(wallets) > 0 /\ Len(wallets) = last.pre.count
    /\ currentWallet = last.pre.current

\* C6: importWallet fails with 'Either private key or mnemonic must be
\* provided' when neither is given, with 'Invalid mnemonic phrase' when only
\* a mnemonic bip39 rejects is given, fails on an invalid private key, and
\* every failing importWallet changes neither store nor selection.
C6_ImportWalletFailures ==
    [][WMCalled({"importWallet"}) =>
         LET pk == last'.args.privateKey
             mn == last'.args.mnemonic
         IN  /\ (~Truthy(pk) /\ ~Truthy(mn)) =>
                    /\ ~last'.ok
                    /\ Contains(last'.err,
                                "Either private key or mnemonic must be provided")
             /\ (~Truthy(pk) /\ Truthy(mn) /\ ~validateMnemonic(mn)) =>
                    ~last'.ok /\ Contains(last'.err, "Invalid mnemonic phrase")
             /\ (Truthy(pk) /\ ~WalletCtorOk(pk)) => ~last'.ok
             /\ ~last'.ok => StoreUnchanged]_vars

\* C6, reached: an import with only an invalid mnemonic failed while wallets
\* were stored.
C6_InvalidMnemonicRejected ==
    /\ last.layer = "wm" /\ last.op = "importWallet" /\ ~last.ok
    /\ ~Truthy(last.args.privateKey) /\ last.args.mnemonic = invalidString
    /\ Contains(last.err, "Invalid mnemonic phrase")
    /\ Len(wallets) > 0 /\ Len(wallets) = last.pre.count

\* The library calls of an invocation that failed, and how often one was made.
FailedCalls(log) == {log[i].call : i \in {j \in 1..Len(log) : log[j].failed}}
TimesMade(log, call) == Cardinality({i \in 1..Len(log) : log[i].call = call})

\* C7: every failing tool call, a call to an unknown tool included, returns a
\* normal tool result whose text is 'Error: ' followed by the error message;
\* no exception escapes to the protocol layer.
C7_ErrorTextFormat ==
    [][(last'.layer = "tool" /\ ~last'.ok) =>
         ~last'.ret.escaped /\ StartsWith(last'.text, "Error: ")]_vars

\* C7 on the stdio server alone: the catch clause of the request handler
\* gives every failure, the unknown tool included, the 'Error: ' text.
C7_StdioErrorText ==
    [][(host = "stdio" /\ last'.layer = "tool" /\ ~last'.ok) =>
         ~last'.ret.escaped /\ StartsWith(last'.text, "Error: ")]_vars

\* C7, reached: on the Smithery server import_wallet without a key and
\* without a mnemonic returned its own error text.
C7_SmitheryErrorText ==
    /\ host = "smithery"
    /\ last.layer = "tool" /\ last.op = "import_wallet" /\ ~last.ok
    /\ StartsWith(last.text, "Error importing wallet: ")

\* The prefix of the Error each RootstockClient operation throws from its
\* catch clause.
FailedPrefix ==
    [getBalance |-> "Failed to get balance: ",
     getTokenBalance |-> "Failed to get token balance: ",
     sendTransaction |-> "Failed to send transaction: ",
     sendTokenTransaction |-> "Failed to send token transaction: ",
     getTransaction |-> "Failed to get transaction: ",
     getBlock |-> "Failed to get block: ",
     getNetworkInfo |-> "Failed to get network info: ",
     estimateGas |-> "Failed to estimate gas: ",
     callContract |-> "Failed to call contract: ",
     sendContractTransaction |-> "Failed to send contract transaction: ",
     deployERC20Token |-> "Failed to deploy ERC20 token: ",
     getTokenInfo |-> "Failed to get token info: ",
     mintTokens |-> "Failed to mint tokens: ",
     deployERC721Token |-> "Failed to deploy ERC721 token: ",
     mintNFT |-> "Failed to mint NFT: ",
     getNFTInfo |-> "Failed to get NFT info: "]
HasFailedPrefix(text) == \E op \in DOMAIN FailedPrefix : Contains(text, FailedPrefix[op])

\* The reads whose failure an operation (or the tool that runs it) absorbs:
\* all of getNetworkInfo's, the owner() read of getTokenInfo and the
\* tokenURI() / ownerOf() reads of getNFTInfo.
Absorbed(op) ==
    CASE op \in {"getNetworkInfo", "get_network_info", "get_native_balance"} ->
             CallsGetNetworkInfo
      [] op \in {"getTokenInfo", "get_token_info"} -> {"token.owner"}
      [] op \in {"getNFTInfo", "get_nft_info"} -> {"nft.tokenURI", "nft.ownerOf"}
      [] OTHER -> {}

\* An operation called with some library call failing reports the failure.
ReportsFailure(failed) ==
    /\ (last'.layer = "client" /\ failed # {}) =>
           ~last'.ok /\ StartsWith(last'.err, FailedPrefix[last'.op])
    /\ (last'.layer = "tool" /\ failed # {}) =>
           ~last'.ok /\ ~last'.ret.escaped /\ HasFailedPrefix(last'.text)

\* C8 as stated: for every RootstockClient operation, when any underlying
\* library call fails the operation fails with an Error that starts with its
\* 'Failed to ...' prefix, and the tool layer returns it as text.
C8_UniformFailedTo ==
    [][ReportsFailure(FailedCalls(last'.log))]_vars

\* C8, amended: the same for every library call but those whose failure the
\* operation absorbs -- the reads of getNetworkInfo (it returns isConnected =
\* false), owner() in getTokenInfo, tokenURI() / ownerOf() in getNFTInfo.
C8_FailedToUnlessAbsorbed ==
    [][ReportsFailure(FailedCalls(last'.log) \ Absorbed(last'.op))]_vars

\* C8, reached: a token balance read failed inside the get_balance tool and
\* the tool returned the client's 'Failed to get token balance' as text.
C8_ToolReportedClientFailure ==
    /\ last.layer = "tool" /\ last.op = "get_balance" /\ ~last.ok
    /\ "token.decimals" \in FailedCalls(last.log)
    /\ Contains(last.text, "Failed to get token balance: ")

\* The calls that submit a transaction to the node.
Submissions ==
    {"wallet.sendTransaction", "token.transfer", "contract.send", "factory.deploy",
     "token.mint", "nft.mint"}

ROOTSTOCK_MAX_RETRIES == 3

\* C10: a request that fails is retried up to ROOTSTOCK_MAX_RETRIES times
\* before the operation reports the failure: an operation that failed on a
\* request made it once and ROOTSTOCK_MAX_RETRIES times again.
C10_RetriedUpToMaxRetries ==
    (last.layer = "client" /\ ~last.ok) =>
        \A call \in FailedCalls(last.log) \ LocalCalls :
            TimesMade(last.log, call) = 1 + ROOTSTOCK_MAX_RETRIES

\* C10, reached: getBalance reported failure after a single failed read.
C10_FailedAfterOneAttempt ==
    /\ last.layer = "client" /\ last.op = "getBalance" /\ ~last.ok
    /\ TimesMade(last.log, "provider.getBalance") = 1

\* C11: getTransaction fails with 'Transaction not found' when the node has
\* no such transaction; when it returns, the status is 'pending' exactly when
\* there is no receipt, 'confirmed' exactly when the receipt status is 1 and
\* 'failed' for any other receipt; with both reads answered and the
\* transaction found it returns.
C11_StatusFromReceipt ==
    (last.layer = "client" /\ last.op = "getTransaction") =>
        /\ ~last.node.found =>
               ~last.ok /\ (FailedCalls(last.log) = {} =>
                                Contains(last.err, "Transaction not found"))
        /\ (last.node.found /\ FailedCalls(last.log) = {}) => last.ok
        /\ last.ok =>
               /\ last.ret.status \in {"pending", "confirmed", "failed"}
               /\ last.ret.status = "pending" <=> last.node.receipt = "none"
               /\ last.ret.status = "confirmed" <=> last.node.receipt = "status1"
               /\ last.ret.status = "failed" <=> last.node.receipt = "status0"

\* C11, reached: a found transaction without a receipt was reported pending.
C11_PendingWithoutReceipt ==
    /\ last.layer = "client" /\ last.op = "getTransaction" /\ last.ok
    /\ last.node.found /\ last.node.receipt = "none"
    /\ last.ret.status = "pending"

\* C12: getNetworkInfo never fails; it returns isConnected = TRUE exactly
\* when the network, block-number and fee-data reads all succeed, and
\* otherwise isConnected = FALSE with blockNumber 0, gasPrice '0', the
\* configured chainId (or 0) and the configured networkName (or 'Unknown').
C12_NetworkInfoNeverFails ==
    (last.layer = "client" /\ last.op = "getNetworkInfo") =>
        /\ last.ok
        /\ last.ret.isConnected <=> FailedCalls(last.log) = {}
        /\ ~last.ret.isConnected =>
               /\ last.ret.blockNumber = 0
               /\ last.ret.gasPrice = "0"
               /\ last.ret.chainId = config.chainId
               /\ last.ret.networkName =
                      (IF config.networkName = "" THEN "Unknown" ELSE config.networkName)

\* C12, reached: with the fee-data read failing and no network name
\* configured, getNetworkInfo returned the disconnected record.
C12_DisconnectedReturned ==
    /\ last.layer = "client" /\ last.op = "getNetworkInfo" /\ last.ok
    /\ "provider.getFeeData" \in FailedCalls(last.log)
    /\ config.networkName = "" /\ config.chainId = DefaultChainId
    /\ ~last.ret.isConnected
    /\ last.ret.networkName = "Unknown" /\ last.ret.chainId = DefaultChainId

\* The requests a call issued.
Requested(log) == {log[i].call : i \in 1..Len(log)}
GetBlockCalled ==
    \/ last.layer = "client" /\ last.op = "getBlock"
    \/ last.layer = "tool" /\ last.op = "get_block"

C14_ListsEmptyStore ==
    (last.layer = "tool" /\ last.op = "list_wallets" /\ last.pre.count = 0) =>
        /\ last.ok
        /\ last.text = <<"Available Wallets (", "0", "):">>

\* C14, reached: list_wallets on a server without wallets returned the error
\* of getCurrentAddress instead of a listing.
C14_EmptyListingFailed ==
    /\ last.layer = "tool" /\ last.op = "list_wallets" /\ ~last.ok
    /\ last.pre.count = 0 /\ Len(wallets) = 0
    /\ Contains(last.text, "No current wallet set")
    /\ ~Contains(last.text, "Available Wallets (")

\* C14, where it holds: with a wallet stored list_wallets returns a listing
\* that counts the stored wallets.
C14_ListsStoredWallets ==
    (last.layer = "tool" /\ last.op = "list_wallets" /\ last.pre.count > 0) =>
        /\ last.ok
        /\ StartsWith(last.text, "Available Wallets (")
        /\ Contains(last.text, ToString(last.pre.count))

\* The full private key of a stored wallet, as text.
StoredKeyTexts == {ToString(PrivateKey(wallets[i].wallet.pk)) : i \in 1..Len(wallets)}

\* C15: listWallets returns entries without privateKey and mnemonic,
\* getWalletInfo returns the stored key cut to its first 6 and last 4
\* characters, and the text of list_wallets, get_current_wallet and
\* import_wallet holds no stored wallet's full private key.
C15_PrivateKeysMasked ==
    /\ (last.layer = "wm" /\ last.op = "listWallets") =>
           /\ last.ok
           /\ Len(last.ret.list) = Len(wallets)
           /\ \A i \in 1..Len(last.ret.list) :
                  {"privateKey", "mnemonic"} \cap DOMAIN last.ret.list[i] = {}
    /\ (last.layer = "wm" /\ last.op = "getWalletInfo" /\ last.ok) =>
           LET stored == MapGet(wallets, toLowerCase(last.args.address))
           IN  /\ last.ret.privateKey =
                      [t |-> "masked", n |-> stored.pk, first |-> 6, last |-> 4]
               /\ last.ret.privateKey.first + last.ret.privateKey.last < PrivateKeyLength
               /\ "mnemonic" \notin DOMAIN last.ret
    /\ (last.layer = "tool"
           /\ last.op \in {"list_wallets", "get_current_wallet", "import_wallet"}) =>
           \A i \in 1..Len(last.text) : last.text[i] \notin StoredKeyTexts

\* C15, reached: the stdio get_current_wallet returned the masked key of the
\* current wallet.
C15_MaskedKeyReturned ==
    /\ host = "stdio"
    /\ last.layer = "tool" /\ last.op = "get_current_wallet" /\ last.ok
    /\ currentWallet # null
    /\ Contains(last.text,
                ToString(maskPrivateKey(PrivateKey(MapGet(wallets, currentWallet).pk))))

\* The environment a WalletManager was constructed under: the entries that
\* load, and the address each is stored under.
Constructed == last.layer = "new" /\ last.op = "constructor"
EnvLoaded == {i \in 1..Len(last.args.privateKeys) :
                 WalletCtorOk(trim(last.args.privateKeys[i]))}
EnvWallet(i) == WalletObj(trim(last.args.privateKeys[i]).n)
EnvAddress(i) ==
    IF i <= Len(last.args.addresses) /\ last.args.addresses[i] # emptyAddr
    THEN last.args.addresses[i]
    ELSE AddressOf(EnvWallet(i))
EnvFirstLoaded == CHOOSE i \in EnvLoaded : \A j \in EnvLoaded : i <= j
EnvMatching ==
    {i \in EnvLoaded : /\ last.args.currentAddress # null
                        /\ toLowerCase(EnvAddress(i)) =
                               toLowerCase(last.args.currentAddress)}
\* Every listed address is the address of the key beside it.
EnvAddressesOwn == \A i \in EnvLoaded : EnvAddress(i) = AddressOf(EnvWallet(i))

ImportedKey(args) == IF Truthy(args.privateKey) THEN args.privateKey.n ELSE args.mnemonic.n

\* C18: a successful importWallet returns the address its key (or mnemonic)
\* derives, whatever the state; and when that wallet is stored already, as
\* after a first import of the key, the store -- its count, its entries and
\* their order -- and the selection are left exactly as they were.
C18_ImportIdempotent ==
    [][(WMCalled({"importWallet"}) /\ last'.ok) =>
         LET wallet == WalletObj(ImportedKey(last'.args))
             key == toLowerCase(AddressOf(wallet))
         IN  /\ last'.ret.address = AddressOf(wallet)
             /\ (MapHas(wallets, key) /\ MapGet(wallets, key) = wallet) =>
                    /\ wallets' = wallets
                    /\ currentWallet' = currentWallet
                    /\ getWalletCount(After).ret = getWalletCount(Now).ret
                    /\ listWallets(After).ret = listWallets(Now).ret]_vars

\* C18, reached: a stored wallet that is not the current one was imported
\* again from its mnemonic and the store of two wallets stayed as it was.
C18_ImportedAgain ==
    /\ last.layer = "wm" /\ last.op = "importWallet" /\ last.ok
    /\ ~Truthy(last.args.privateKey)
    /\ last.pre.count = 2 /\ Len(wallets) = 2
    /\ currentWallet = last.pre.current
    /\ currentWallet # toLowerCase(last.ret.address)

\* C19: getWalletCount is the number of distinct addresses wallets are
\* stored under and the length of listWallets(); a successful createWallet or
\* importWallet of an address not yet stored raises it by exactly 1 and a
\* successful removeWallet lowers it by exactly 1.
C19_CountMatchesStore ==
    [][/\ WMCalled({"createWallet", "importWallet", "removeWallet", "getWalletCount",
                    "listWallets"}) =>
              /\ getWalletCount(After).ret.count =
                     Cardinality({wallets'[i].key : i \in 1..Len(wallets')})
              /\ getWalletCount(After).ret.count = Len(listWallets(After).ret.list)
       /\ WMCalled({"getWalletCount"}) =>
              last'.ok /\ last'.ret.count = Len(listWallets(Now).ret.list)
       /\ (WMCalled({"createWallet", "importWallet"}) /\ last'.ok
              /\ ~Stored(last'.ret.address)) =>
              getWalletCount(After).ret.count = getWalletCount(Now).ret.count + 1
       /\ (WMCalled({"removeWallet"}) /\ last'.ok) =>
              getWalletCount(After).ret.count = getWalletCount(Now).ret.count - 1]_vars

\* C19, reached: a wallet was removed from a store of two and one is left.
C19_RemovedOneOfTwo ==
    /\ last.layer = "wm" /\ last.op = "removeWallet" /\ last.ok
    /\ last.pre.count = 2
    /\ getWalletCount(Now).ret.count = 1
    /\ Len(listWallets(Now).ret.list) = 1

\* The decimals a deployment was made with, as the tool reports them.
ReportedDecimals(text) ==
    text[1 + CHOOSE i \in 1..Len(text) : text[i] = "Decimals: "]
ProvidedDecimals(args) ==
    IF args.decimals = undefined THEN DefaultDecimals ELSE args.decimals.n

\* C20: a successful deploy_erc20_token deploys with the decimals the caller
\* provided, zero included, and with 18 only when the argument is omitted.
C20_DeploysProvidedDecimals ==
    (last.layer = "tool" /\ last.op = "deploy_erc20_token" /\ last.ok) =>
        ReportedDecimals(last.text) = ToString(ProvidedDecimals(last.args))

\* C20, reached: deploy_erc20_token called with decimals 0 deployed a token
\* of 18 decimals.
C20_ZeroDecimalsBecame18 ==
    /\ last.layer = "tool" /\ last.op = "deploy_erc20_token" /\ last.ok
    /\ last.args.decimals = NumberArg(0)
    /\ ReportedDecimals(last.text) = ToString(DefaultDecimals)

\* C20 below the tools: RootstockClient.deployERC20Token itself deploys with
\* the decimals it is given and with 18 when given none.
C20_ClientKeepsDecimals ==
    (last.layer = "client" /\ last.op = "deployERC20Token" /\ last.ok) =>
        last.ret.decimals.n = ProvidedDecimals(last.args)

\* C22: every query tool and every transaction tool, whether the call
\* succeeds or fails, leaves the stored wallets and the current selection as
\* they were.
C22_ToolsKeepStore ==
    [][ToolCalled(QueryTools \cup TransactionTools) => StoreUnchanged]_vars

\* C22, reached: a send_transaction the node rejected returned its error
\* while two wallets were stored, and store and selection are as before.
C22_FailedSendKeptStore ==
    /\ last.layer = "tool" /\ last.op = "send_transaction" /\ ~last.ok
    /\ FailedCalls(last.log) # {}
    /\ Len(wallets) = 2 /\ last.pre.count = 2
    /\ currentWallet # null /\ currentWallet = last.pre.current

\* C23: in every reachable state the current selection is unset exactly when
\* the wallet store is empty; when set it is the key of a stored wallet, so
\* getCurrentWallet and getCurrentAddress succeed whenever a wallet is stored.
C23_SelectionIffStored ==
    /\ (currentWallet = null) <=> (Len(wallets) = 0)
    /\ currentWallet # null => MapHas(wallets, currentWallet)
    /\ Len(wallets) > 0 => getCurrentWallet(Now).ok /\ getCurrentAddress(Now).ok

\* C23, reached: the current wallet was removed while another was stored, and
\* the selection passed to a wallet still stored.
C23_ReselectedAfterRemoval ==
    /\ last.layer = "wm" /\ last.op = "removeWallet" /\ last.ok
    /\ last.pre.current = toLowerCase(last.args.address)
    /\ last.pre.count = 2 /\ Len(wallets) = 1
    /\ currentWallet # null /\ MapHas(wallets, currentWallet)
    /\ getCurrentWallet(Now).ok

\* The stored key inserted before every other key that is still stored.
EarliestInserted(before, after) ==
    CHOOSE k \in {after[i].key : i \in 1..Len(after)} :
        \A i \in 1..Len(after) : MapIndex(before, k) <= MapIndex(before, after[i].key)

\* C24: removeWallet of the current wallet selects the earliest-inserted
\* wallet still stored, or none when the store becomes empty; removeWallet of
\* a stored wallet that is not current removes that wallet alone and leaves
\* the selection unchanged.
C24_RemoveReselectsEarliest ==
    [][(WMCalled({"removeWallet"}) /\ last'.ok) =>
         LET key == toLowerCase(last'.args.address)
         IN  /\ ~MapHas(wallets', key)
             /\ Len(wallets') = Len(wallets) - 1
             /\ \A i \in 1..Len(wallets) :
                    wallets[i].key # key =>
                        /\ MapHas(wallets', wallets[i].key)
                        /\ MapGet(wallets', wallets[i].key) = wallets[i].wallet
             /\ IF currentWallet # key THEN currentWallet' = currentWallet
                ELSE IF Len(wallets') = 0 THEN currentWallet' = null
                ELSE currentWallet' = EarliestInserted(wallets, wallets')]_vars

\* C24, reached: of three stored wallets the current one, inserted second,
\* was removed and the wallet inserted first is current, not the third.
C24_FirstOfTwoRemainingSelected ==
    /\ last.layer = "wm" /\ last.op = "removeWallet" /\ last.ok
    /\ last.pre.count = 3 /\ Len(wallets) = 2
    /\ last.pre.current = toLowerCase(last.args.address)
    /\ currentWallet = wallets[1].key
    /\ currentWallet # wallets[2].key

\* Every address the WalletManager reports: that of the current wallet and
\* those of the listing.
ReportedAddresses ==
    (IF getCurrentAddress(Now).ok THEN {getCurrentAddress(Now).ret} ELSE {})
        \cup {listWallets(Now).ret.list[i].address :
                 i \in 1..Len(listWallets(Now).ret.list)}

\* C25: in every reachable state each entry of the store is keyed by the
\* lower-cased address derived from the signing key it holds, wallets loaded
\* under ROOTSTOCK_ADDRESSES included, so that every address getCurrentAddress
\* or listWallets returns satisfies hasWallet and is accepted by getWallet,
\* getWalletInfo and setCurrentWallet.
C25_KeyedByDerivedAddress ==
    /\ \A i \in 1..Len(wallets) :
           wallets[i].key = toLowerCase(AddressOf(wallets[i].wallet))
    /\ \A a \in ReportedAddresses :
           /\ hasWallet(Now, a).ret.has
           /\ getWallet(Now, a).ok
           /\ getWalletInfo(Now, a).ok
           /\ setCurrentWallet(Now, a).ok

\* C25, reached: get_current_wallet failed with 'Wallet not found' for the
\* address getCurrentAddress returned, the current wallet being stored under
\* the address ROOTSTOCK_ADDRESSES gave it.
C25_CurrentAddressNotFound ==
    /\ last.layer = "tool" /\ last.op = "get_current_wallet" /\ ~last.ok
    /\ Contains(last.text, "Wallet not found for address: ")
    /\ currentWallet # null /\ MapHas(wallets, currentWallet)
    /\ currentWallet # toLowerCase(AddressOf(MapGet(wallets, currentWallet)))
    /\ ~hasWallet(Now, getCurrentAddress(Now).ret).ret.has

\* C26: a wallet-requiring tool called while no current wallet is set returns
\* an error text that carries 'No current wallet set' and issues no request:
\* the wallet is looked up before the first library call of the handler.
C26_NoWalletNoRequest ==
    [][(ToolCalled(TransactionTools) /\ currentWallet = null) =>
         /\ ~last'.ok
         /\ ~last'.ret.escaped
         /\ Contains(last'.text, "No current wallet set")
         /\ last'.log = <<>>
         /\ last'.signer = 0]_vars

\* C26, reached: deploy_erc721_token was called on an empty store with a node
\* that would have answered, and returned its error without any request.
C26_DeployWithoutWallet ==
    /\ last.layer = "tool" /\ last.op = "deploy_erc721_token" /\ ~last.ok
    /\ last.pre.current = null /\ last.pre.count = 0
    /\ last.node.balance > 0
    /\ Contains(last.text, "No current wallet set")
    /\ last.log = <<>>

\* A deployment ran: the client operation called directly, or reached through
\* its tool with a current wallet.
DeployCalled ==
    \/ ClientCalled({"deployERC20Token", "deployERC721Token"})
    \/ ToolCalled({"deploy_erc20_token", "deploy_erc721_token"}) /\ last'.signer # 0
\* Position of the first entry of the log for the call, 0 if it was not made.
FirstMade(log, call) ==
    IF TimesMade(log, call) = 0 THEN 0
    ELSE CHOOSE i \in 1..Len(log) :
             log[i].call = call /\ \A j \in 1..(i - 1) : log[j].call # call

\* C27: deployERC20Token and deployERC721Token read the deployer's balance
\* first; when the read returns zero the operation fails with 'Wallet has no
\* funds for deployment' and sends no deployment transaction; a deployment
\* transaction is sent only after a balance read that returned a non-zero
\* value.
C27_BalanceCheckedBeforeDeploy ==
    [][DeployCalled =>
         LET log == last'.log
             message == IF last'.layer = "client" THEN last'.err ELSE last'.text
             read == FirstMade(log, "provider.getBalance")
             sent == FirstMade(log, "factory.deploy")
         IN  /\ read = 1
             /\ (~log[read].failed /\ last'.node.balance = 0) =>
                    /\ ~last'.ok
                    /\ Contains(message,
                          "Wallet has no funds for deployment. Please fund the wallet: ")
                    /\ sent = 0
             /\ sent # 0 =>
                    /\ read < sent
                    /\ ~log[read].failed
                    /\ last'.node.balance # 0
                    /\ TimesMade(log, "factory.deploy") = 1]_vars

\* C27, reached: deployERC721Token read a zero balance from a node that would
\* have accepted the deployment, and failed after that single request.
C27_UnfundedDeployRefused ==
    /\ last.layer = "client" /\ last.op = "deployERC721Token" /\ ~last.ok
    /\ last.node.balance = 0
    /\ Contains(last.err, "Wallet has no funds for deployment. Please fund the wallet: ")
    /\ last.log = <<[call |-> "provider.getBalance", failed |-> FALSE]>>

\* C28: sendTransaction, sendTokenTransaction, sendContractTransaction and
\* mintTokens return a result only after the wait for the receipt has
\* completed; the returned status is never 'pending': it is 'confirmed'
\* exactly when a receipt with status 1 was obtained and 'failed' otherwise,
\* also when the wait yields no receipt.
C28_StatusAfterWait ==
    [][(/\ ClientCalled({"sendTransaction", "sendTokenTransaction",
                         "sendContractTransaction", "mintTokens"})
        /\ last'.ok) =>
         LET log == last'.log
         IN  /\ Len(log) > 0
             /\ log[Len(log)] = [call |-> "transaction.wait", failed |-> FALSE]
             /\ last'.ret.status \in {"confirmed", "failed"}
             /\ last'.ret.status = "confirmed" <=> last'.node.receipt = "status1"]_vars

\* C28, reached: mintTokens returned 'failed' after a wait that yielded no
\* receipt.
C28_FailedWithoutReceipt ==
    /\ last.layer = "client" /\ last.op = "mintTokens" /\ last.ok
    /\ last.node.receipt = "none"
    /\ last.ret.status = "failed"
    /\ last.log[Len(last.log)] = [call |-> "transaction.wait", failed |-> FALSE]

\* fields provided-or-default: the value the caller provided, else the default.
ProvidedOrDefault(input, f) ==
    IF input[f] = JsUndefined THEN ConfigDefaults[f] ELSE input[f]

\* C21: parsing a configuration keeps every field the caller provided and
\* fills each missing field with its default; a chainId that is not a number
\* is rejected; and the server built by createServer uses the same
\* provided-or-default value for every field.
C21_ConfigDefaulting ==
    /\ (last.layer = "new" /\ last.op = "configSchema.parse") =>
           IF last.args.chainId.t \notin {"undefined", "number"} THEN ~last.ok
           ELSE /\ last.ok
                /\ last.ret.config.privateKey = last.args.privateKey
                /\ \A f \in ConfigFields :
                       last.ret.config[f] = ProvidedOrDefault(last.args, f)
    /\ (last.layer = "new" /\ last.op = "createServer") =>
           /\ \A f \in ConfigFields :
                  last.ret.config[f] = ProvidedOrDefault(last.args, f)
           /\ \A f \in ConfigFields \ {"debug"} :
                  last.ret.client[f] = ProvidedOrDefault(last.args, f)

\* C21, the parsing alone: configSchema.parse keeps provided fields, fills
\* missing ones and rejects a chainId that is no number.
C21_ParseDefaults ==
    (last.layer = "new" /\ last.op = "configSchema.parse") =>
        IF last.args.chainId.t \notin {"undefined", "number"} THEN ~last.ok
        ELSE /\ last.ok
             /\ last.ret.config.privateKey = last.args.privateKey
             /\ \A f \in ConfigFields :
                    last.ret.config[f] = ProvidedOrDefault(last.args, f)

\* C21, reached: createServer was given chainId 0 and an empty networkName,
\* which configSchema.parse keeps, and the client was built with chain 31 and
\* 'Rootstock Testnet'.
C21_ProvidedZeroReplaced ==
    /\ last.layer = "new" /\ last.op = "createServer"
    /\ last.args.chainId = JsNumber(0)
    /\ last.args.networkName = JsString("")
    /\ configSchemaParse(last.args).ok
    /\ configSchemaParse(last.args).config.chainId = JsNumber(0)
    /\ configSchemaParse(last.args).config.networkName = JsString("")
    /\ last.ret.client.chainId = JsNumber(DefaultChainId)
    /\ last.ret.client.networkName = JsString(DefaultNetworkName)
    /\ config = RootstockConfig(DefaultChainId, DefaultNetworkName)

\* C30: when the Smithery server is created with a valid config.privateKey,
\* the wallet of that key is the current wallet after creation, whatever
\* wallets the environment provides, so that wallet-requiring tools sign with
\* it; when config.privateKey is invalid the server is still created and the
\* failed import leaves the wallet store as the constructor built it.
C30_ConfigKeyIsCurrent ==
    (last.layer = "new" /\ last.op = "createServer" /\ Truthy(last.args.privateKey)) =>
        IF WalletCtorOk(last.args.privateKey)
        THEN /\ currentWallet = toLowerCase(AddressOf(WalletObj(last.args.privateKey.n)))
             /\ getCurrentWallet(Now).ok
             /\ getCurrentWallet(Now).ret = WalletObj(last.args.privateKey.n)
        ELSE Now = last.ret.constructed

\* C30, reached: the server was created with a valid config.privateKey while
\* the environment provided another key; the configured wallet is stored, and
\* the current wallet, the one the tools sign with, is the environment's.
C30_EnvWalletStaysCurrent ==
    /\ last.layer = "new" /\ last.op = "createServer"
    /\ WalletCtorOk(last.args.privateKey)
    /\ MapHas(wallets, toLowerCase(AddressOf(WalletObj(last.args.privateKey.n))))
    /\ last.ret.constructed.current # null
    /\ currentWallet = last.ret.constructed.current
    /\ getCurrentWallet(Now).ok
    /\ getCurrentWallet(Now).ret # WalletObj(last.args.privateKey.n)

\* C30, the invalid key alone: a config.privateKey that is no key leaves store
\* and selection as new WalletManager() built them.
C30_InvalidKeyIgnored ==
    (/\ last.layer = "new" /\ last.op = "createServer"
     /\ Truthy(last.args.privateKey) /\ ~WalletCtorOk(last.args.privateKey)) =>
        Now = last.ret.constructed

\* C29: a transaction tool signs with the wallet that was current when its
\* handler started: the handler suspended at its await holds exactly that
\* wallet, no call served in the meantime (set_current_wallet, create_wallet,
\* import_wallet) changes what it holds, and when it resumes the transaction
\* is signed by that wallet and the 'from' it reports is that wallet's
\* address; resuming leaves the stored wallets and the selection the
\* interleaved calls made as they are.
C29_SignerFixedAtStart ==
    [][/\ BagCardinality(inflight') > BagCardinality(inflight) =>
              /\ getCurrentWallet(Now).ok
              /\ \E frame \in BagToSet(inflight') :
                     /\ inflight' = inflight (+) SetToBag({frame})
                     /\ frame.wallet = getCurrentWallet(Now).ret
       /\ BagCardinality(inflight') = BagCardinality(inflight) => inflight' = inflight
       /\ BagCardinality(inflight') < BagCardinality(inflight) =>
              \E frame \in BagToSet(inflight) :
                  /\ inflight' = inflight (-) SetToBag({frame})
                  /\ last'.op = frame.op
                  /\ last'.signer = frame.wallet.pk
                  /\ (last'.ok /\ last'.op = "send_transaction") =>
                         Contains(last'.text, ToString(AddressOf(frame.wallet)))
                  /\ wallets' = wallets
                  /\ currentWallet' = currentWallet]_vars

\* A send_transaction returned after a set_current_wallet served during its
\* await had selected another wallet: it was signed by, and reports, the
\* wallet its handler held, which is no longer the current one.
C29_SelectionChangedInFlight ==
    /\ last.layer = "tool" /\ last.op = "send_transaction" /\ last.ok
    /\ getCurrentWallet(Now).ok
    /\ getCurrentWallet(Now).ret.pk # last.signer
    /\ Contains(last.text, ToString(AddressOf(WalletObj(last.signer))))

====
